---- MODULE Spec2Model ----
(***************************************************************************)
(* Leantime MCP server: the JSON-RPC client (LeantimeClient.call and its   *)
(* wrappers) and the tool handlers registered by registerTicketTools and   *)
(* registerProjectTools.                                                   *)
(*                                                                         *)
(* JavaScript values are tagged records.  A JavaScript object is the       *)
(* ordered sequence of its <<key, value>> members (insertion order).       *)
(* Texts (HTTP bodies, envelope texts, error messages) are sequences of    *)
(* tokens: JSON punctuation, whitespace, scalars and raw fragments.        *)
(*                                                                         *)
(* proc is the process: main with parseArguments, initializeTools with     *)
(* loadConfig, and the connection of the transport.  direct holds the      *)
(* calls made on the LeantimeClient wrappers without a tool handler.       *)
(* upstream is the ticket the Leantime server stores, for the runs in      *)
(* which the answers come from a store.                                    *)
(***************************************************************************)
EXTENDS Integers, Sequences, FiniteSets, TLC

VARIABLES requestId, invs, sent, proc, direct, upstream

vars == <<requestId, invs, sent, proc, direct, upstream>>

---------------------------------------------------------------------------
(* JavaScript values *)

Undef == [t |-> "undefined"]

Null == [t |-> "null"]

Bool(b) == [t |-> "boolean", b |-> b]

Num(n) == [t |-> "number", n |-> n]

Str(s) == [t |-> "string", s |-> s]

Arr(a) == [t |-> "array", a |-> a]

Obj(o) == [t |-> "object", o |-> o]

(* o.key: the value of the last member named key, undefined when absent *)
RECURSIVE GetFrom(_, _, _)
GetFrom(ms, key, i) ==
  IF i = 0 THEN Undef
  ELSE IF ms[i][1] = key THEN ms[i][2]
  ELSE GetFrom(ms, key, i - 1)

Get(v, key) == IF v.t = "object" THEN GetFrom(v.o, key, Len(v.o)) ELSE Undef

(* key in o *)
HasKey(v, key) == v.t = "object" /\ \E i \in 1..Len(v.o) : v.o[i][1] = key

Keys(v) == IF v.t = "object" THEN {v.o[i][1] : i \in 1..Len(v.o)} ELSE {}

(* !v *)
Falsy(v) ==
  \/ v.t \in {"undefined", "null"}
  \/ v.t = "boolean" /\ ~v.b
  \/ v.t = "number" /\ v.n = 0
  \/ v.t = "string" /\ v.s = ""

(* typeof v, where arrays and null are "object" *)
TypeOf(v) ==
  IF v.t \in {"object", "array", "null"} THEN "object" ELSE v.t

---------------------------------------------------------------------------
(* Text tokens *)

P(s) == [k |-> "punct", s |-> s]

Lit(s) == [k |-> "lit", s |-> s]

NumTok(n) == [k |-> "num", n |-> n]

StrTok(s) == [k |-> "str", s |-> s]

NL == [k |-> "ws", s |-> "newline"]

SP == [k |-> "ws", s |-> "space"]

Raw(s) == IF s = "" THEN <<>> ELSE <<[k |-> "raw", s |-> s]>>

(* the gap of JSON.stringify(v, null, indent) at nesting depth d *)
RECURSIVE Spaces(_)
Spaces(n) == IF n = 0 THEN <<>> ELSE <<SP>> \o Spaces(n - 1)

Break(indent, d) == IF indent = 0 THEN <<>> ELSE <<NL>> \o Spaces(indent * d)

Colon(indent) == IF indent = 0 THEN <<P(":")>> ELSE <<P(":"), SP>>

(* JSON.stringify(v, null, indent) for a value other than undefined *)
RECURSIVE Ser(_, _, _)
RECURSIVE SerElems(_, _, _, _)
RECURSIVE SerMembers(_, _, _, _, _)
SerElems(a, i, indent, d) ==
  IF i > Len(a) THEN <<>>
  ELSE (IF i > 1 THEN <<P(",")>> ELSE <<>>)
       \o Break(indent, d)
       \o (IF a[i].t = "undefined" THEN <<Lit("null")>> ELSE Ser(a[i], indent, d))
       \o SerElems(a, i + 1, indent, d)

SerMembers(ms, i, indent, d, first) ==
  IF i > Len(ms) THEN <<>>
  ELSE IF ms[i][2].t = "undefined" THEN SerMembers(ms, i + 1, indent, d, first)
  ELSE (IF first THEN <<>> ELSE <<P(",")>>)
       \o Break(indent, d)
       \o <<StrTok(ms[i][1])>> \o Colon(indent)
       \o Ser(ms[i][2], indent, d)
       \o SerMembers(ms, i + 1, indent, d, FALSE)

Ser(v, indent, d) ==
  CASE v.t = "null" -> <<Lit("null")>>
    [] v.t = "boolean" -> <<Lit(IF v.b THEN "true" ELSE "false")>>
    [] v.t = "number" -> <<NumTok(v.n)>>
    [] v.t = "string" -> <<StrTok(v.s)>>
    [] v.t = "array" ->
         IF Len(v.a) = 0 THEN <<P("["), P("]")>>
         ELSE <<P("[")>> \o SerElems(v.a, 1, indent, d + 1)
              \o Break(indent, d) \o <<P("]")>>
    [] v.t = "object" ->
         LET body == SerMembers(v.o, 1, indent, d + 1, TRUE)
         IN IF Len(body) = 0 THEN <<P("{"), P("}")>>
            ELSE <<P("{")>> \o body \o Break(indent, d) \o <<P("}")>>

(* JSON.stringify(v, null, indent): [undef |-> TRUE] stands for the      *)
(* undefined it returns for undefined                                    *)
JSONstringify(v, indent) ==
  IF v.t = "undefined" THEN [undef |-> TRUE, text |-> <<>>]
  ELSE [undef |-> FALSE, text |-> Ser(v, indent, 0)]

(* `${JSON.stringify(v, null, indent)}` inside a template literal *)
Interpolate(s) == IF s.undef THEN Raw("undefined") ELSE s.text

---------------------------------------------------------------------------
(* JSON.parse / Response.json() on a token text.  A parse result is        *)
(* [ok, v, next]; ok = FALSE stands for the SyntaxError it throws.         *)

RECURSIVE SkipWs(_, _)
SkipWs(toks, i) ==
  IF i <= Len(toks) /\ toks[i].k = "ws" THEN SkipWs(toks, i + 1) ELSE i

ParseFail(i) == [ok |-> FALSE, v |-> Undef, next |-> i]

IsPunct(toks, i, s) == i <= Len(toks) /\ toks[i].k = "punct" /\ toks[i].s = s

RECURSIVE ParseValue(_, _)
RECURSIVE ParseElems(_, _, _)
RECURSIVE ParseMembers(_, _, _)
(* after the element r: a comma and more elements, or the closing bracket *)
ElemsAfter(toks, acc, r, j) ==
  IF ~r.ok THEN r
  ELSE IF IsPunct(toks, j, ",") THEN ParseElems(toks, j + 1, Append(acc, r.v))
  ELSE IF IsPunct(toks, j, "]")
       THEN [ok |-> TRUE, v |-> Arr(Append(acc, r.v)), next |-> j + 1]
  ELSE ParseFail(j)

ParseElems(toks, i, acc) ==
  CHOOSE out \in {ElemsAfter(toks, acc, r, SkipWs(toks, r.next)) :
                    r \in {ParseValue(toks, i)}} : TRUE

(* after the member key : r, likewise *)
MembersAfter(toks, acc, key, r, j) ==
  IF ~r.ok THEN r
  ELSE IF IsPunct(toks, j, ",")
       THEN ParseMembers(toks, j + 1, Append(acc, <<key, r.v>>))
  ELSE IF IsPunct(toks, j, "}")
       THEN [ok |-> TRUE, v |-> Obj(Append(acc, <<key, r.v>>)), next |-> j + 1]
  ELSE ParseFail(j)

ParseMembers(toks, i0, acc) ==
  CHOOSE out \in
    {IF ~(i <= Len(toks) /\ toks[i].k = "str") THEN ParseFail(i)
     ELSE IF ~IsPunct(toks, SkipWs(toks, i + 1), ":")
          THEN ParseFail(SkipWs(toks, i + 1))
     ELSE CHOOSE m \in {MembersAfter(toks, acc, toks[i].s, r, SkipWs(toks, r.next)) :
                          r \in {ParseValue(toks, SkipWs(toks, i + 1) + 1)}} : TRUE
       : i \in {SkipWs(toks, i0)}} : TRUE

ValueAt(toks, i) ==
  IF i > Len(toks) THEN ParseFail(i)
  ELSE CASE toks[i].k = "lit" ->
              [ok |-> TRUE,
               v |-> IF toks[i].s = "null" THEN Null ELSE Bool(toks[i].s = "true"),
               next |-> i + 1]
         [] toks[i].k = "num" -> [ok |-> TRUE, v |-> Num(toks[i].n), next |-> i + 1]
         [] toks[i].k = "str" -> [ok |-> TRUE, v |-> Str(toks[i].s), next |-> i + 1]
         [] toks[i].k = "punct" /\ toks[i].s = "[" ->
              IF IsPunct(toks, SkipWs(toks, i + 1), "]")
              THEN [ok |-> TRUE, v |-> Arr(<<>>), next |-> SkipWs(toks, i + 1) + 1]
              ELSE ParseElems(toks, i + 1, <<>>)
         [] toks[i].k = "punct" /\ toks[i].s = "{" ->
              IF IsPunct(toks, SkipWs(toks, i + 1), "}")
              THEN [ok |-> TRUE, v |-> Obj(<<>>), next |-> SkipWs(toks, i + 1) + 1]
              ELSE ParseMembers(toks, i + 1, <<>>)
         [] OTHER -> ParseFail(i)

ParseValue(toks, i0) ==
  CHOOSE out \in {ValueAt(toks, i) : i \in {SkipWs(toks, i0)}} : TRUE

(* the whole text must be one JSON value *)
JSONparse(toks) ==
  CHOOSE out \in
    {IF r.ok /\ SkipWs(toks, r.next) > Len(toks)
     THEN [ok |-> TRUE, v |-> r.v]
     ELSE [ok |-> FALSE, v |-> Undef] : r \in {ParseValue(toks, 1)}} : TRUE

---------------------------------------------------------------------------
(* Command line and environment.  A string is the sequence of its pieces:  *)
(* "/" is the slash character, every other piece is a non-empty fragment   *)
(* without a slash.  An optional string is [set, s]; Absent is undefined.  *)

Absent == [set |-> FALSE, s |-> <<>>]

Given(s) == [set |-> TRUE, s |-> s]

(* !x for an optional string: undefined or '' *)
Empty(x) == ~x.set \/ x.s = <<>>

(* a || b *)
OrElse(a, b) == IF Empty(a) THEN b ELSE a

NoOptions == [leantimeUrl |-> Absent, leantimeApiKey |-> Absent]

(* the usage text, in pieces that keep the names it mentions apart *)
UsageText ==
  <<"Usage: myleantime-mcp [options]", "--url", " <url> Leantime server URL (overrides ",
    "LEANTIME_URL", " env var)", "--api-key", " <key> Leantime API key (overrides ",
    "LEANTIME_API_KEY", " env var)", "-h", ", ", "--help", " Show this help message">>

(* a variant that keeps the first value of a repeated flag *)
RECURSIVE ParseFrom_FirstWins(_, _, _)
ParseFrom_FirstWins(args, i, options) ==
  IF i > Len(args) THEN [exit |-> FALSE, options |-> options]
  ELSE IF args[i] = <<"--help">> \/ args[i] = <<"-h">>
  THEN [exit |-> TRUE, options |-> options]
  ELSE IF args[i] = <<"--url">> /\ i + 1 <= Len(args)
  THEN ParseFrom_FirstWins(args, i + 2,
         IF options.leantimeUrl.set THEN options
         ELSE [options EXCEPT !.leantimeUrl = Given(args[i + 1])])
  ELSE IF args[i] = <<"--api-key">> /\ i + 1 <= Len(args)
  THEN ParseFrom_FirstWins(args, i + 2,
         IF options.leantimeApiKey.set THEN options
         ELSE [options EXCEPT !.leantimeApiKey = Given(args[i + 1])])
  ELSE ParseFrom_FirstWins(args, i + 1, options)

(* the loop of parseArguments from args[i] on: [exit, options], exit for   *)
(* process.exit(0) after the usage text                                    *)
RECURSIVE ParseFrom(_, _, _)
ParseFrom(args, i, options) ==
  IF i > Len(args) THEN [exit |-> FALSE, options |-> options]
  ELSE IF args[i] = <<"--help">> \/ args[i] = <<"-h">>
  THEN [exit |-> TRUE, options |-> options]
  ELSE IF args[i] = <<"--url">> /\ i + 1 <= Len(args)
  THEN ParseFrom(args, i + 2, [options EXCEPT !.leantimeUrl = Given(args[i + 1])])
  ELSE IF args[i] = <<"--api-key">> /\ i + 1 <= Len(args)
  THEN ParseFrom(args, i + 2, [options EXCEPT !.leantimeApiKey = Given(args[i + 1])])
  ELSE ParseFrom(args, i + 1, options)

(* a variant that looks for the help flag in the first argument only *)
parseArguments_HelpFirst(args) ==
  IF Len(args) > 0 /\ (args[1] = <<"--help">> \/ args[1] = <<"-h">>)
  THEN [exit |-> TRUE, options |-> NoOptions]
  ELSE [exit |-> FALSE, options |-> NoOptions]

parseArguments(args) == ParseFrom(args, 1, NoOptions)

(* a variant that strips every trailing slash *)
RECURSIVE NormalizeUrl_AllSlashes(_)
NormalizeUrl_AllSlashes(url) ==
  IF Len(url) > 0 /\ url[Len(url)] = "/"
  THEN NormalizeUrl_AllSlashes(SubSeq(url, 1, Len(url) - 1))
  ELSE url

(* leantimeUrl.endsWith('/') ? leantimeUrl.slice(0, -1) : leantimeUrl *)
NormalizeUrl(url) ==
  IF Len(url) > 0 /\ url[Len(url)] = "/" THEN SubSeq(url, 1, Len(url) - 1) ELSE url

NotConfigured(name) ==
  <<name, " is not configured. Please provide it as a parameter or set it in your .env file or environment variables.">>

NoConfig == [leantimeUrl |-> <<>>, leantimeApiKey |-> <<>>]

(* loadConfig: its two resolved constants, and the Config it returns or     *)
(* the message of the Error it throws                                      *)
LoadConfigOf(leantimeUrl, leantimeApiKey) ==
  IF Empty(leantimeUrl)
  THEN [threw |-> TRUE, message |-> NotConfigured("LEANTIME_URL"), config |-> NoConfig,
        leantimeUrl |-> leantimeUrl, leantimeApiKey |-> leantimeApiKey]
  ELSE IF Empty(leantimeApiKey)
  THEN [threw |-> TRUE, message |-> NotConfigured("LEANTIME_API_KEY"), config |-> NoConfig,
        leantimeUrl |-> leantimeUrl, leantimeApiKey |-> leantimeApiKey]
  ELSE [threw |-> FALSE, message |-> <<>>,
        config |-> [leantimeUrl |-> NormalizeUrl(leantimeUrl.s),
                    leantimeApiKey |-> leantimeApiKey.s],
        leantimeUrl |-> leantimeUrl, leantimeApiKey |-> leantimeApiKey]

loadConfig(options, env) ==
  LoadConfigOf(OrElse(options.leantimeUrl, env.LEANTIME_URL),
               OrElse(options.leantimeApiKey, env.LEANTIME_API_KEY))

NotLoaded ==
  [threw |-> FALSE, message |-> <<>>, config |-> NoConfig,
   leantimeUrl |-> Absent, leantimeApiKey |-> Absent]

(* config.leantimeUrl.replace(/^https?:\/\//, '') *)
WithoutScheme(url) ==
  IF Len(url) >= 3 /\ url[1] \in {"http:", "https:"} /\ url[2] = "/" /\ url[3] = "/"
  THEN SubSeq(url, 4, Len(url)) ELSE url

(* what initializeTools writes with console.error *)
ConfiguredLines(options, config) ==
  <<<<"MCP Server configured successfully with URL: ">>
    \o WithoutScheme(config.leantimeUrl)
    \o <<" (from ", IF Empty(options.leantimeUrl) THEN "environment variable"
                    ELSE "CLI argument", ")">>>>

FailureLines(message) ==
  <<<<"Error initializing server:">>,
    message,
    <<"Make sure to create a .env file based on .env.example with the required variables,">>,
    <<"or provide the configuration via command line arguments (", "--url", " and ",
      "--api-key", ").">>,
    <<"Run with ", "--help", " for more information.">>>>

(* the process when main is called.  pc: "main" before parseArguments,      *)
(* "initialize" before initializeTools, "connect" before server.connect,   *)
(* "serving" once connected, "exited" after process.exit(exitCode)         *)
StartProc(argv, env) ==
  [pc |-> "main", argv |-> argv, env |-> env, options |-> NoOptions,
   loadConfigCalls |-> 0, loaded |-> NotLoaded, registered |-> {},
   connected |-> FALSE, exitCode |-> 0, stdout |-> <<>>, stderr |-> <<>>,
   sigints |-> 0, closed |-> FALSE]

(* main: parseArguments *)
Parsed(p) ==
  IF parseArguments(p.argv).exit
  THEN [p EXCEPT !.pc = "exited", !.exitCode = 0, !.stdout = Append(@, UsageText)]
  ELSE [p EXCEPT !.pc = "initialize", !.options = parseArguments(p.argv).options]

---------------------------------------------------------------------------
(* Tool arguments: a function from the supplied argument names to values   *)

NoArgs == [k \in {} |-> Undef]

(* args.k, undefined for an argument that was not supplied *)
Arg(args, k) == IF k \in DOMAIN args THEN args[k] ELSE Undef

---------------------------------------------------------------------------
(* LeantimeClient wrappers: the method and params each hands to call *)

Rpc(method, params) == [method |-> method, params |-> params]

getTicket(id) ==
  Rpc("leantime.rpc.Tickets.Tickets.getTicket", Obj(<<<<"id", id>>>>))

getAllTickets(searchCriteria) ==
  Rpc("leantime.rpc.Tickets.Tickets.getAll",
      Obj(<<<<"searchCriteria", searchCriteria>>>>))

addTicket(values) ==
  Rpc("leantime.rpc.Tickets.Tickets.addTicket", Obj(<<<<"values", values>>>>))

updateTicket(values) ==
  Rpc("leantime.rpc.Tickets.Tickets.updateTicket", Obj(<<<<"values", values>>>>))

deleteTicket(id) ==
  Rpc("leantime.rpc.Tickets.Tickets.delete", Obj(<<<<"id", id>>>>))

getStatusLabels(projectId) ==
  Rpc("leantime.rpc.Tickets.Tickets.getStatusLabels",
      Obj(<<<<"projectId", projectId>>>>))

getAllMilestones(searchCriteria, sortBy) ==
  Rpc("leantime.rpc.Tickets.Tickets.getAllMilestones",
      Obj(<<<<"searchCriteria", searchCriteria>>, <<"sortBy", sortBy>>>>))

findTicket(term, projectId, userId) ==
  Rpc("leantime.rpc.Tickets.Tickets.findTicket",
      Obj(<<<<"term", term>>, <<"projectId", projectId>>, <<"userId", userId>>>>))

getPriorityLabels == Rpc("leantime.rpc.Tickets.Tickets.getPriorityLabels", Undef)

getTicketTypes == Rpc("leantime.rpc.Tickets.Tickets.getTicketTypes", Undef)

getAllProjects == Rpc("leantime.rpc.Projects.Projects.getAllProjects", Undef)

getProject(id) ==
  Rpc("leantime.rpc.Projects.Projects.getProject", Obj(<<<<"id", id>>>>))

getAll(showClosedProjects) ==
  Rpc("leantime.rpc.Projects.Projects.getAll",
      Obj(<<<<"showClosedProjects", showClosedProjects>>>>))

addProject(values) ==
  Rpc("leantime.rpc.Projects.Projects.addProject", Obj(<<<<"values", values>>>>))

patchProject(id, params) ==
  Rpc("leantime.rpc.Projects.Projects.patch",
      Obj(<<<<"id", id>>, <<"params", params>>>>))

getProjectTypes == Rpc("leantime.rpc.Projects.Projects.getProjectTypes", Undef)

getProjectProgress(projectId) ==
  Rpc("leantime.rpc.Projects.Projects.getProjectProgress",
      Obj(<<<<"projectId", projectId>>>>))

getUsersAssignedToProject(projectId) ==
  Rpc("leantime.rpc.Projects.Projects.getUsersAssignedToProject",
      Obj(<<<<"projectId", projectId>>>>))

getProjectsAssignedToUser(userId, projectStatus, clientId) ==
  Rpc("leantime.rpc.Projects.Projects.getProjectsAssignedToUser",
      Obj(<<<<"userId", userId>>, <<"projectStatus", projectStatus>>,
            <<"clientId", clientId>>>>))

isUserAssignedToProject(userId, projectId) ==
  Rpc("leantime.rpc.Projects.Projects.isUserAssignedToProject",
      Obj(<<<<"userId", userId>>, <<"projectId", projectId>>>>))

getProjectRole(userId, projectId) ==
  Rpc("leantime.rpc.Projects.Projects.getProjectRole",
      Obj(<<<<"userId", userId>>, <<"projectId", projectId>>>>))

findProject(term) ==
  Rpc("leantime.rpc.Projects.Projects.findProject", Obj(<<<<"term", term>>>>))

duplicateProject(projectId, clientId, projectName, userStartDate, assignSameUsers) ==
  Rpc("leantime.rpc.Projects.Projects.duplicateProject",
      Obj(<<<<"projectId", projectId>>, <<"clientId", clientId>>,
            <<"projectName", projectName>>, <<"userStartDate", userStartDate>>,
            <<"assignSameUsers", assignSameUsers>>>>))

getProjectHierarchyAssignedToUser(userId, projectStatus, clientId) ==
  Rpc("leantime.rpc.Projects.Projects.getProjectHierarchyAssignedToUser",
      Obj(<<<<"userId", userId>>, <<"projectStatus", projectStatus>>,
            <<"clientId", clientId>>>>))

getAllClientsAvailableToUser(userId, projectStatus) ==
  Rpc("leantime.rpc.Projects.Projects.getAllClientsAvailableToUser",
      Obj(<<<<"userId", userId>>, <<"projectStatus", projectStatus>>>>))

(* the wrappers that declare optional parameters, and those parameters *)
OptionalParams ==
  [getAllTickets |-> {"searchCriteria"},
   getAllMilestones |-> {"searchCriteria", "sortBy"},
   findTicket |-> {"userId"},
   getAll |-> {"showClosedProjects"},
   getProjectsAssignedToUser |-> {"projectStatus", "clientId"},
   getProjectHierarchyAssignedToUser |-> {"projectStatus", "clientId"},
   getAllClientsAvailableToUser |-> {"projectStatus"}]

(* the wrapper called with the arguments a, one for each declared parameter, *)
(* Undef for an argument that is not passed                                  *)
WrapperRpc(wrapper, a) ==
  CASE wrapper = "getAllTickets" -> getAllTickets(a.searchCriteria)
    [] wrapper = "getAllMilestones" -> getAllMilestones(a.searchCriteria, a.sortBy)
    [] wrapper = "findTicket" -> findTicket(a.term, a.projectId, a.userId)
    [] wrapper = "getAll" -> getAll(a.showClosedProjects)
    [] wrapper = "getProjectsAssignedToUser" ->
         getProjectsAssignedToUser(a.userId, a.projectStatus, a.clientId)
    [] wrapper = "getProjectHierarchyAssignedToUser" ->
         getProjectHierarchyAssignedToUser(a.userId, a.projectStatus, a.clientId)
    [] wrapper = "getAllClientsAvailableToUser" ->
         getAllClientsAvailableToUser(a.userId, a.projectStatus)

---------------------------------------------------------------------------
(* The values objects the handlers build *)

(* if (args.k !== undefined) values.k = args.k, for each k of keys in turn *)
RECURSIVE AddSupplied(_, _, _, _)
AddSupplied(ms, args, keys, i) ==
  IF i > Len(keys) THEN ms
  ELSE AddSupplied(IF Arg(args, keys[i]).t # "undefined"
                   THEN Append(ms, <<keys[i], Arg(args, keys[i])>>)
                   ELSE ms,
                   args, keys, i + 1)

CreateProjectOptional ==
  <<"details", "hourBudget", "dollarBudget", "assignedUsers", "psettings",
    "start", "end">>

(* a variant that sets psettings to its documented default *)
CreateProjectValues_Defaults(args) ==
  Obj(AddSupplied(<<<<"name", Arg(args, "name")>>,
                    <<"clientId", Arg(args, "clientId")>>,
                    <<"type", Str("project")>>,
                    <<"psettings", Str("restricted")>>>>,
                  args, CreateProjectOptional, 1))

CreateProjectValues(args) ==
  Obj(AddSupplied(<<<<"name", Arg(args, "name")>>,
                    <<"clientId", Arg(args, "clientId")>>,
                    <<"type", Str("project")>>>>,
                  args, CreateProjectOptional, 1))

UpdateProjectOptional ==
  <<"name", "details", "clientId", "hourBudget", "dollarBudget", "start",
    "end", "status">>

UpdateProjectParams(args) == Obj(AddSupplied(<<>>, args, UpdateProjectOptional, 1))

CreateTicketOptional ==
  <<"description", "projectId", "type", "status", "priority", "userId",
    "dateToFinish", "planHours", "tags", "sprint", "storypoints", "milestoneid">>

CreateTicketValues(args) ==
  Obj(AddSupplied(<<<<"headline", Arg(args, "headline")>>>>,
                  args, CreateTicketOptional, 1))

(* a ?? b *)
Coalesce(a, b) == IF a.t \in {"undefined", "null"} THEN b ELSE a

UpdateTicketOptional ==
  <<"description", "status", "priority", "userId", "dateToFinish",
    "planHours", "tags", "sprint", "storypoints">>

(* if (args.k !== undefined) values.k = args.k;                           *)
(* else if (currentTicket.k !== undefined) values.k = currentTicket.k     *)
MergeField(ms, args, currentTicket, key) ==
  IF Arg(args, key).t # "undefined" THEN Append(ms, <<key, Arg(args, key)>>)
  ELSE IF Get(currentTicket, key).t # "undefined"
       THEN Append(ms, <<key, Get(currentTicket, key)>>)
  ELSE ms

RECURSIVE MergeFields(_, _, _, _, _)
MergeFields(ms, args, currentTicket, keys, i) ==
  IF i > Len(keys) THEN ms
  ELSE MergeFields(MergeField(ms, args, currentTicket, keys[i]),
                   args, currentTicket, keys, i + 1)

UpdateTicketValues(args, currentTicket) ==
  Obj(MergeFields(<<<<"id", Arg(args, "id")>>,
                    <<"projectId", Get(currentTicket, "projectId")>>,
                    <<"headline", Coalesce(Arg(args, "headline"),
                                           Get(currentTicket, "headline"))>>,
                    <<"type", Coalesce(Arg(args, "type"),
                                       Get(currentTicket, "type"))>>>>,
                  args, currentTicket, UpdateTicketOptional, 1))

(* !currentTicket || typeof currentTicket !== 'object' *)
BaselineRejected(currentTicket) ==
  Falsy(currentTicket) \/ TypeOf(currentTicket) # "object"

---------------------------------------------------------------------------
(* The registered tools *)

ProjectTools ==
  {"get_all_projects", "get_project", "get_user_projects", "create_project",
   "update_project", "get_project_progress", "get_project_users",
   "get_user_assigned_projects", "check_user_project_assignment",
   "get_project_role", "search_projects", "get_project_types",
   "duplicate_project", "get_project_hierarchy", "get_available_clients"}

TicketTools ==
  {"get_ticket", "search_tickets", "create_ticket", "update_ticket",
   "delete_ticket", "find_ticket", "get_ticket_types", "get_priority_labels",
   "get_status_labels"}

Tools == ProjectTools \cup TicketTools

(* the client call a handler makes first *)
FirstCall(tool, args) ==
  CASE tool = "get_all_projects" -> getAllProjects
    [] tool = "get_project" -> getProject(Arg(args, "id"))
    [] tool = "get_user_projects" -> getAll(Arg(args, "showClosedProjects"))
    [] tool = "create_project" -> addProject(CreateProjectValues(args))
    [] tool = "update_project" ->
         patchProject(Arg(args, "id"), UpdateProjectParams(args))
    [] tool = "get_project_progress" -> getProjectProgress(Arg(args, "projectId"))
    [] tool = "get_project_users" ->
         getUsersAssignedToProject(Arg(args, "projectId"))
    [] tool = "get_user_assigned_projects" ->
         getProjectsAssignedToUser(Arg(args, "userId"), Arg(args, "projectStatus"),
                                   Arg(args, "clientId"))
    [] tool = "check_user_project_assignment" ->
         isUserAssignedToProject(Arg(args, "userId"), Arg(args, "projectId"))
    [] tool = "get_project_role" ->
         getProjectRole(Arg(args, "userId"), Arg(args, "projectId"))
    [] tool = "search_projects" -> findProject(Arg(args, "term"))
    [] tool = "get_project_types" -> getProjectTypes
    [] tool = "duplicate_project" ->
         duplicateProject(Arg(args, "projectId"), Arg(args, "clientId"),
                          Arg(args, "projectName"), Arg(args, "userStartDate"),
                          Arg(args, "assignSameUsers"))
    [] tool = "get_project_hierarchy" ->
         getProjectHierarchyAssignedToUser(Arg(args, "userId"),
                                           Arg(args, "projectStatus"),
                                           Arg(args, "clientId"))
    [] tool = "get_available_clients" ->
         getAllClientsAvailableToUser(Arg(args, "userId"),
                                      Arg(args, "projectStatus"))
    [] tool = "get_ticket" -> getTicket(Arg(args, "id"))
    [] tool = "search_tickets" -> getAllTickets(Arg(args, "searchCriteria"))
    [] tool = "create_ticket" -> addTicket(CreateTicketValues(args))
    [] tool = "update_ticket" -> getTicket(Arg(args, "id"))
    [] tool = "delete_ticket" -> deleteTicket(Arg(args, "id"))
    [] tool = "find_ticket" ->
         findTicket(Arg(args, "term"), Arg(args, "projectId"), Arg(args, "userId"))
    [] tool = "get_ticket_types" -> getTicketTypes
    [] tool = "get_priority_labels" -> getPriorityLabels
    [] tool = "get_status_labels" -> getStatusLabels(Arg(args, "projectId"))

(* a variant in which no handler confirms *)
ConfirmationPhrase_None(tool) == ""

(* the phrase a handler puts before the serialized result, "" for none *)
ConfirmationPhrase(tool) ==
  CASE tool = "create_project" -> "Project created successfully. Result: "
    [] tool = "update_project" -> "Project updated successfully. Result: "
    [] tool = "duplicate_project" -> "Project duplicated successfully. Result: "
    [] tool = "create_ticket" -> "Ticket created successfully. Result: "
    [] tool = "update_ticket" -> "Ticket updated successfully. Result: "
    [] tool = "delete_ticket" -> "Ticket deleted successfully. Result: "
    [] OTHER -> ""

(* the key a handler wraps the result under before serializing, "" for none *)
WrapKey(tool) ==
  CASE tool = "check_user_project_assignment" -> "isAssigned"
    [] tool = "get_project_role" -> "role"
    [] OTHER -> ""

(* the message a handler uses for a caught value that is no Error *)
UnknownErrorText(tool) ==
  CASE tool = "get_all_projects" -> "Unknown error retrieving all projects"
    [] tool = "get_project" -> "Unknown error retrieving project"
    [] tool = "get_user_projects" -> "Unknown error retrieving user projects"
    [] tool = "create_project" -> "Unknown error creating project"
    [] tool = "update_project" -> "Unknown error updating project"
    [] tool = "get_project_progress" -> "Unknown error retrieving project progress"
    [] tool = "get_project_users" -> "Unknown error retrieving project users"
    [] tool = "get_user_assigned_projects" -> "Unknown error retrieving user projects"
    [] tool = "check_user_project_assignment" ->
         "Unknown error checking user assignment"
    [] tool = "get_project_role" -> "Unknown error retrieving project role"
    [] tool = "search_projects" -> "Unknown error searching projects"
    [] tool = "get_project_types" -> "Unknown error retrieving project types"
    [] tool = "duplicate_project" -> "Unknown error duplicating project"
    [] tool = "get_project_hierarchy" -> "Unknown error retrieving project hierarchy"
    [] tool = "get_available_clients" ->
         "Unknown error retrieving available clients"
    [] tool = "get_ticket" -> "Unknown error retrieving ticket"
    [] tool = "search_tickets" -> "Unknown error searching tickets"
    [] tool = "create_ticket" -> "Unknown error creating ticket"
    [] tool = "update_ticket" -> "Unknown error updating ticket"
    [] tool = "delete_ticket" -> "Unknown error deleting ticket"
    [] tool = "find_ticket" -> "Unknown error searching tickets"
    [] tool = "get_ticket_types" -> "Unknown error retrieving ticket types"
    [] tool = "get_priority_labels" -> "Unknown error retrieving priority labels"
    [] tool = "get_status_labels" -> "Unknown error retrieving status labels"

---------------------------------------------------------------------------
(* Exceptions and envelopes *)

(* new Error(message), or a built-in error the runtime throws *)
Error(message) == [isErrorInstance |-> TRUE, message |-> message]

NoError == [isErrorInstance |-> FALSE, message |-> <<>>]

(* a variant that interpolates an object result instead of serializing it *)
SuccessEnvelope_Coerced(tool, result) ==
  [isError |-> FALSE, textDefined |-> TRUE,
   text |-> Raw(ConfirmationPhrase(tool))
            \o (IF result.t \in {"object", "array"} THEN Raw("[object Object]")
                ELSE Interpolate(JSONstringify(result, 2)))]

(* the return of a handler's try block *)
SuccessEnvelope(tool, result) ==
  IF ConfirmationPhrase(tool) # ""
  THEN [isError |-> FALSE, textDefined |-> TRUE,
        text |-> Raw(ConfirmationPhrase(tool))
                 \o Interpolate(JSONstringify(result, 2))]
  ELSE LET s == JSONstringify(IF WrapKey(tool) # ""
                              THEN Obj(<<<<WrapKey(tool), result>>>>)
                              ELSE result, 2)
       IN [isError |-> FALSE, textDefined |-> ~s.undef, text |-> s.text]

(* the return of a handler's catch block *)
ErrorEnvelope(tool, error) ==
  [isError |-> TRUE, textDefined |-> TRUE,
   text |-> Raw("Error: ")
            \o (IF error.isErrorInstance THEN error.message
                ELSE Raw(UnknownErrorText(tool)))]

NoEnvelope == [isError |-> FALSE, textDefined |-> FALSE, text |-> <<>>]

---------------------------------------------------------------------------
(* LeantimeClient.call *)

(* const requestId = this.requestId++ : the id the call takes *)
TakenRequestId(counter) == counter

(* a variant that reads the counter and leaves it *)
NextRequestId_NoIncrement(counter) == counter

(* ... and the counter it leaves *)
NextRequestId(counter) == counter + 1

(* the body of the POST: JSON.stringify({method, jsonrpc, id, params}) *)
RequestBody(id, rpc) ==
  JSONstringify(Obj(<<<<"method", Str(rpc.method)>>, <<"jsonrpc", Str("2.0")>>,
                      <<"id", Num(id)>>, <<"params", rpc.params>>>>), 0).text

ApiPath == <<"/", "api", "/", "jsonrpc">>

(* the fetch of call: target, method, headers and body *)
Request(id, rpc) ==
  [id |-> id, method |-> rpc.method, body |-> RequestBody(id, rpc),
   url |-> proc.loaded.config.leantimeUrl \o ApiPath,
   verb |-> "POST",
   headers |-> [ContentType |-> "application/json",
                xApiKey |-> proc.loaded.config.leantimeApiKey]]

(* a variant that lets redirections through *)
ResponseOk_Below400(resp) == resp.status >= 200 /\ resp.status < 400

(* response.ok *)
ResponseOk(resp) == resp.status >= 200 /\ resp.status <= 299

(* `${v}` *)
Template(v) ==
  CASE v.t = "string" -> Raw(v.s)
    [] v.t = "number" -> <<NumTok(v.n)>>
    [] v.t = "boolean" -> Raw(IF v.b THEN "true" ELSE "false")
    [] v.t = "undefined" -> Raw("undefined")
    [] v.t = "null" -> Raw("null")
    [] v.t = "object" -> Raw("[object Object]")

(* Error HTTP ${response.status}: ${response.statusText || 'Error desconocido'} *)
HttpError(resp) ==
  Error(Raw("Error HTTP ") \o <<NumTok(resp.status)>> \o Raw(": ")
        \o Raw(IF resp.statusText # "" THEN resp.statusText
               ELSE "Error desconocido"))

(* Error JSON-RPC: ${json.error.message} (code: ${json.error.code}) *)
JsonRpcError(error) ==
  Error(Raw("Error JSON-RPC: ") \o Template(Get(error, "message"))
        \o Raw(" (code: ") \o Template(Get(error, "code")) \o Raw(")"))

Thrown(error) == [threw |-> TRUE, error |-> error, result |-> Undef]

Returned(result) == [threw |-> FALSE, error |-> NoError, result |-> result]

(* call, from the settling of fetch to the check of response.ok:         *)
(* [settled |-> FALSE] when it goes on to await response.json()          *)
AfterFetch(resp) ==
  IF resp.kind = "reject"
  THEN [settled |-> TRUE, outcome |-> Thrown(resp.reason)]
  ELSE IF ~ResponseOk(resp)
  THEN [settled |-> TRUE, outcome |-> Thrown(HttpError(resp))]
  ELSE [settled |-> FALSE, outcome |-> Returned(Undef)]

(* a variant that returns the result member whenever there is one *)
AfterParse_ResultFirst(parsed) ==
  IF ~parsed.ok THEN Thrown(Error(Raw("Unexpected token in JSON")))
  ELSE IF parsed.v.t \notin {"object", "array"}
  THEN Thrown(Error(Raw("Cannot use 'in' operator to search for 'error'")))
  ELSE IF HasKey(parsed.v, "result") THEN Returned(Get(parsed.v, "result"))
  ELSE IF HasKey(parsed.v, "error")
  THEN Thrown(JsonRpcError(Get(parsed.v, "error")))
  ELSE Returned(Get(parsed.v, "result"))

(* call, from the value response.json() gave to its return or throw *)
AfterParse(parsed) ==
  IF ~parsed.ok THEN Thrown(Error(Raw("Unexpected token in JSON")))
  ELSE IF parsed.v.t \notin {"object", "array"}
  THEN Thrown(Error(Raw("Cannot use 'in' operator to search for 'error'")))
  ELSE IF HasKey(parsed.v, "error")
  THEN IF Get(parsed.v, "error").t = "null"
       THEN Thrown(Error(Raw("Cannot read properties of null")))
       ELSE Thrown(JsonRpcError(Get(parsed.v, "error")))
  ELSE Returned(Get(parsed.v, "result"))

(* call, from the settling of response.json() to its return or throw *)
AfterJson(resp) ==
  CHOOSE out \in {AfterParse(parsed) : parsed \in {JSONparse(resp.body)}} : TRUE

---------------------------------------------------------------------------
(* Tool invocations.  pc: "fetch" awaiting fetch, "json" awaiting          *)
(* response.json(), "returned" the handler has returned its envelope,      *)
(* "replied" the host has sent the envelope on and dropped the invocation. *)

NewInvocation(tool, args, id) ==
  [tool |-> tool, args |-> args, pc |-> "fetch", lost |-> FALSE,
   reqs |-> <<Request(id, FirstCall(tool, args))>>,
   resps |-> <<>>, bodyReads |-> 0, results |-> <<>>,
   caught |-> NoError, env |-> NoEnvelope]

RepliedInvocation(isError) ==
  [tool |-> "", args |-> NoArgs, pc |-> "replied", lost |-> FALSE,
   reqs |-> <<>>, resps |-> <<>>, bodyReads |-> 0, results |-> <<>>,
   caught |-> NoError,
   env |-> [isError |-> isError, textDefined |-> FALSE, text |-> <<>>]]

(* a variant whose catch block throws the error on *)
HandlerCatch_Rethrow(r, error) == [r EXCEPT !.pc = "threw", !.caught = error]

(* a variant whose error text carries the number of the client's request *)
HandlerCatch_Numbered(r, error) ==
  [r EXCEPT !.pc = "returned", !.caught = error,
            !.env = ErrorEnvelope(r.tool,
                      [error EXCEPT !.message = @ \o <<NumTok(r.reqs[1].id)>>])]

(* the handler's catch block *)
HandlerCatch(r, error) ==
  [r EXCEPT !.pc = "returned", !.caught = error,
            !.env = ErrorEnvelope(r.tool, error)]

(* the handler's return of the try block *)
HandlerReturn(r, result) ==
  [r EXCEPT !.pc = "returned", !.env = SuccessEnvelope(r.tool, result)]

(* a variant that sends the update a second time *)
CallsAgain_Repeats(r) == r.tool = "update_ticket" /\ Len(r.reqs) <= 2

(* whether the handler makes another client call after this result *)
CallsAgain(r) == r.tool = "update_ticket" /\ Len(r.reqs) = 1

(* a variant that serves the invocations one at a time, in order *)
WaitsFor_Earlier(i) == 1..i

(* the invocations whose pending fetch the continuation of invocation i    *)
(* awaits: its own                                                        *)
WaitsFor(i) == {i}

(* a variant whose catch block logs the failure and returns *)
Initialized_NoExit(p) ==
  IF loadConfig(p.options, p.env).threw
  THEN [p EXCEPT !.pc = "connect", !.loadConfigCalls = @ + 1,
                 !.loaded = loadConfig(p.options, p.env),
                 !.stderr = @ \o FailureLines(loadConfig(p.options, p.env).message)]
  ELSE [p EXCEPT !.pc = "connect", !.loadConfigCalls = @ + 1,
                 !.loaded = loadConfig(p.options, p.env),
                 !.registered = TicketTools \cup ProjectTools,
                 !.stderr = @ \o ConfiguredLines(p.options,
                                                 loadConfig(p.options, p.env).config)]

(* main: initializeTools, which loads the configuration, constructs the    *)
(* client and registers the ticket and the project tools, or reports the   *)
(* failure and exits with code 1                                           *)
Initialized(p) ==
  IF loadConfig(p.options, p.env).threw
  THEN [p EXCEPT !.pc = "exited", !.exitCode = 1, !.loadConfigCalls = @ + 1,
                 !.loaded = loadConfig(p.options, p.env),
                 !.stderr = @ \o FailureLines(loadConfig(p.options, p.env).message)]
  ELSE [p EXCEPT !.pc = "connect", !.loadConfigCalls = @ + 1,
                 !.loaded = loadConfig(p.options, p.env),
                 !.registered = TicketTools \cup ProjectTools,
                 !.stderr = @ \o ConfiguredLines(p.options,
                                                 loadConfig(p.options, p.env).config)]

(* main: await server.connect(transport) resolves *)
Connected(p) ==
  [p EXCEPT !.pc = "serving", !.connected = TRUE,
            !.stderr = Append(@, <<"MCP Leantime server started and ready to receive requests">>)]

(* main: await server.connect(transport) rejects, and main().catch exits *)
ConnectFailed(p) ==
  [p EXCEPT !.pc = "exited", !.exitCode = 1,
            !.stderr = Append(@, <<"Fatal error starting server:">>)]

(* a variant of the SIGINT handler that exits without awaiting the close *)
Interrupted_ExitFirst(p) ==
  [p EXCEPT !.sigints = @ + 1, !.pc = "exited", !.exitCode = 0]

(* the SIGINT handler runs up to await server.close() *)
Interrupted(p) == [p EXCEPT !.sigints = @ + 1]

(* server.close() completes: the transport is closed *)
CloseCompleted(p) == [p EXCEPT !.closed = TRUE, !.connected = FALSE]

(* the SIGINT handler runs on from its await: process.exit(0) *)
InterruptExited(p) == [p EXCEPT !.pc = "exited", !.exitCode = 0]

NoEnv == [LEANTIME_URL |-> Absent, LEANTIME_API_KEY |-> Absent]

HostUrl == <<"https:", "/", "/", "HOST">>

(* a command line that configures the server *)
ServingArgv == <<<<"--url">>, HostUrl, <<"--api-key">>, <<"KEY">>>>

(* the ticket the upstream stores when the process starts *)
StoredTicket ==
  Obj(<<<<"id", Num(5)>>, <<"projectId", Num(1)>>, <<"headline", Str("Old")>>,
        <<"type", Str("task")>>, <<"status", Num(1)>>, <<"userId", Num(4)>>,
        <<"milestoneid", Num(7)>>>>)

(* the server connected, its client just constructed *)
Init ==
  /\ requestId = 1
  /\ invs = <<>>
  /\ sent = <<>>
  /\ proc = Connected(Initialized(Parsed(StartProc(ServingArgv, NoEnv))))
  /\ direct = <<>>
  /\ upstream = StoredTicket

(* the process starts: main is called with a command line and environment *)
Start(argv, env) ==
  /\ requestId = 1
  /\ invs = <<>>
  /\ sent = <<>>
  /\ proc = StartProc(argv, env)
  /\ direct = <<>>
  /\ upstream = StoredTicket

(* main runs parseArguments *)
ParseArguments ==
  /\ proc.pc = "main"
  /\ proc' = Parsed(proc)
  /\ UNCHANGED <<requestId, invs, sent, direct, upstream>>

(* main runs initializeTools *)
InitializeTools ==
  /\ proc.pc = "initialize"
  /\ proc' = Initialized(proc)
  /\ requestId' = 1
  /\ UNCHANGED <<invs, sent, direct, upstream>>

(* the transport connects, or fails to *)
Connect ==
  /\ proc.pc = "connect"
  /\ proc' = Connected(proc)
  /\ UNCHANGED <<requestId, invs, sent, direct, upstream>>

ConnectFails ==
  /\ proc.pc = "connect"
  /\ proc' = ConnectFailed(proc)
  /\ UNCHANGED <<requestId, invs, sent, direct, upstream>>

(* a caller of the client calls a wrapper: call runs up to await fetch *)
DirectCall(wrapper, a) ==
  /\ proc.loadConfigCalls > 0
  /\ ~proc.loaded.threw
  /\ proc.pc # "exited"
  /\ direct' = Append(direct,
       [wrapper |-> wrapper, a |-> a, pc |-> "fetch", resps |-> <<>>,
        req |-> Request(TakenRequestId(requestId), WrapperRpc(wrapper, a)),
        out |-> Returned(Undef)])
  /\ sent' = Append(sent, TakenRequestId(requestId))
  /\ requestId' = NextRequestId(requestId)
  /\ UNCHANGED <<invs, proc, upstream>>

(* the fetch of a wrapper's call settles *)
DirectFetchSettles(i, resp) ==
  /\ direct[i].pc = "fetch"
  /\ \E f \in {AfterFetch(resp)} :
       direct' = [direct EXCEPT ![i] =
         IF f.settled
         THEN [@ EXCEPT !.pc = "done", !.resps = Append(@, resp), !.out = f.outcome]
         ELSE [@ EXCEPT !.pc = "json", !.resps = Append(@, resp)]]
  /\ UNCHANGED <<requestId, invs, sent, proc, upstream>>

(* response.json() of a wrapper's call settles: the wrapper returns or throws *)
DirectJsonSettles(i) ==
  /\ direct[i].pc = "json"
  /\ \E o \in {AfterJson(direct[i].resps[1])} :
       direct' = [direct EXCEPT ![i] = [@ EXCEPT !.pc = "done", !.out = o]]
  /\ UNCHANGED <<requestId, invs, sent, proc, upstream>>

(* the host delivers a tool invocation: the handler runs up to await fetch *)
Invoke(tool, args) ==
  /\ proc.connected
  /\ proc.pc = "serving"
  /\ tool \in proc.registered
  /\ invs' = Append(invs, NewInvocation(tool, args, TakenRequestId(requestId)))
  /\ sent' = Append(sent, TakenRequestId(requestId))
  /\ requestId' = NextRequestId(requestId)
  /\ UNCHANGED <<proc, direct, upstream>>

(* the fetch of invocation i settles with resp: call throws or goes on to *)
(* await response.json()                                                  *)
Settled(i, resp) ==
  /\ proc.pc # "exited"
  /\ invs[i].pc = "fetch"
  /\ ~invs[i].lost
  /\ \A j \in WaitsFor(i) \ {i} : invs[j].pc \in {"returned", "replied"}
  /\ LET r == [invs[i] EXCEPT !.resps = Append(@, resp)]
         a == AfterFetch(resp)
     IN invs' = [invs EXCEPT ![i] =
                   IF a.settled THEN HandlerCatch(r, a.outcome.error)
                   ELSE [r EXCEPT !.pc = "json"]]

(* fetch settles with resp, an answer of the upstream's choice *)
FetchSettles(i, resp) ==
  /\ Settled(i, resp)
  /\ UNCHANGED <<requestId, sent, proc, direct, upstream>>

(* the handler of invocation r, from the return or throw o of its call *)
Continue(i, r, o) ==
  IF o.threw
  THEN /\ invs' = [invs EXCEPT ![i] = HandlerCatch(r, o.error)]
       /\ UNCHANGED <<requestId, sent, proc, direct, upstream>>
  ELSE IF ~CallsAgain(r)
  THEN /\ invs' = [invs EXCEPT ![i] =
            HandlerReturn([r EXCEPT !.results = Append(@, o.result)], o.result)]
       /\ UNCHANGED <<requestId, sent, proc, direct, upstream>>
  ELSE IF BaselineRejected(o.result)
  THEN /\ invs' = [invs EXCEPT ![i] =
            HandlerCatch([r EXCEPT !.results = Append(@, o.result)],
                         Error(Raw("Ticket not found or invalid response")))]
       /\ UNCHANGED <<requestId, sent, proc, direct, upstream>>
  ELSE /\ invs' = [invs EXCEPT ![i] =
            [r EXCEPT !.pc = "fetch", !.results = Append(@, o.result),
               !.reqs = Append(@, Request(TakenRequestId(requestId),
                          updateTicket(UpdateTicketValues(r.args, o.result))))]]
       /\ sent' = Append(sent, TakenRequestId(requestId))
       /\ requestId' = NextRequestId(requestId)
       /\ UNCHANGED <<proc, direct, upstream>>

(* response.json() settles; the handler runs on to its next await or return *)
JsonSettles(i) ==
  /\ proc.pc # "exited"
  /\ invs[i].pc = "json"
  /\ \E o \in {AfterJson(invs[i].resps[Len(invs[i].resps)])} :
       Continue(i, [invs[i] EXCEPT !.bodyReads = @ + 1], o)

(* the upstream never answers the pending request *)
Lose(i) ==
  /\ invs[i].pc = "fetch"
  /\ ~invs[i].lost
  /\ invs' = [invs EXCEPT ![i].lost = TRUE]
  /\ UNCHANGED <<requestId, sent, proc, direct, upstream>>

(* the host sends the returned envelope to its client *)
Reply(i) ==
  /\ proc.pc # "exited"
  /\ invs[i].pc = "returned"
  /\ invs' = [invs EXCEPT ![i] = RepliedInvocation(invs[i].env.isError)]
  /\ UNCHANGED <<requestId, sent, proc, direct, upstream>>

---------------------------------------------------------------------------
(* Inputs: the arguments the host passes and what the upstream answers *)

MaxInv == 2

MaxSeqInv == 2

MaxSupplied == 2

RequiredArgs(tool) ==
  CASE tool \in {"get_project", "get_ticket", "update_ticket", "delete_ticket",
                 "update_project"} -> {"id"}
    [] tool = "create_project" -> {"name", "clientId"}
    [] tool \in {"get_project_progress", "get_project_users", "get_status_labels"} ->
         {"projectId"}
    [] tool \in {"get_user_assigned_projects", "get_project_hierarchy",
                 "get_available_clients"} -> {"userId"}
    [] tool \in {"check_user_project_assignment", "get_project_role"} ->
         {"userId", "projectId"}
    [] tool = "search_projects" -> {"term"}
    [] tool = "duplicate_project" ->
         {"projectId", "clientId", "projectName", "userStartDate", "assignSameUsers"}
    [] tool = "create_ticket" -> {"headline"}
    [] tool = "find_ticket" -> {"term", "projectId"}
    [] OTHER -> {}

SeqToSet(q) == {q[i] : i \in 1..Len(q)}

OptionalArgs(tool) ==
  CASE tool = "get_user_projects" -> {"showClosedProjects"}
    [] tool = "create_project" -> SeqToSet(CreateProjectOptional)
    [] tool = "update_project" -> SeqToSet(UpdateProjectOptional)
    [] tool \in {"get_user_assigned_projects", "get_project_hierarchy"} ->
         {"projectStatus", "clientId"}
    [] tool = "get_available_clients" -> {"projectStatus"}
    [] tool = "search_tickets" -> {"searchCriteria"}
    [] tool = "create_ticket" -> SeqToSet(CreateTicketOptional)
    [] tool = "update_ticket" ->
         {"headline", "type"} \cup SeqToSet(UpdateTicketOptional)
    [] tool = "find_ticket" -> {"userId"}
    [] OTHER -> {}

(* one value of the declared type for each argument; some are falsy *)
ArgValue(tool, key) ==
  CASE key \in {"id", "milestoneid"} -> Num(5)
    [] key \in {"projectId", "userId", "clientId"} -> Num(3)
    [] key \in {"hourBudget", "planHours"} -> Num(0)
    [] key = "dollarBudget" -> Num(10)
    [] key = "status" -> IF tool = "update_project" THEN Str("closed") ELSE Num(2)
    [] key \in {"showClosedProjects", "assignSameUsers"} -> Bool(FALSE)
    [] key = "searchCriteria" -> Obj(<<<<"currentProject", Num(1)>>>>)
    [] key \in {"tags", "end"} -> Str("")
    [] key = "headline" -> IF tool = "update_ticket" THEN Str("") ELSE Str("New")
    [] key = "name" -> Str("X")
    [] OTHER -> Str(key)

ArgsWith(tool, optional) ==
  [k \in RequiredArgs(tool) \cup optional |-> ArgValue(tool, k)]

(* the required arguments and at most n of the optional ones *)
ArgsFor(tool, n) ==
  {ArgsWith(tool, opt) : opt \in {S \in SUBSET OptionalArgs(tool) : Cardinality(S) <= n}}

TicketScenario ==
  Obj(<<<<"id", Num(5)>>, <<"headline", Str("Old")>>, <<"type", Str("task")>>,
        <<"status", Num(1)>>>>)

TicketFull ==
  Obj(<<<<"id", Num(5)>>, <<"projectId", Num(1)>>, <<"headline", Str("Old")>>,
        <<"type", Str("task")>>, <<"description", Str("text")>>,
        <<"status", Num(1)>>, <<"priority", Str("2")>>, <<"userId", Num(4)>>,
        <<"dateToFinish", Str("2026-01-31")>>, <<"planHours", Num(8)>>,
        <<"tags", Str("a,b")>>, <<"sprint", Str("s1")>>, <<"storypoints", Str("3")>>,
        <<"milestoneid", Num(7)>>, <<"editorId", Num(9)>>>>)

TicketNulls ==
  Obj(<<<<"id", Num(5)>>, <<"projectId", Num(1)>>, <<"headline", Null>>,
        <<"type", Null>>, <<"description", Null>>, <<"status", Num(0)>>,
        <<"tags", Str("")>>, <<"milestoneid", Null>>>>)

(* result payloads; Undef stands for a response with no result member *)
Payloads ==
  {Undef, Null, Bool(FALSE), Bool(TRUE), Num(0), Num(7), Str(""), Str("x"),
   Arr(<<>>), Obj(<<>>), Arr(<<Num(1), Null>>), Arr(<<TicketScenario>>),
   TicketScenario, TicketFull, TicketNulls,
   Obj(<<<<"a", Obj(<<<<"b", Arr(<<Bool(TRUE)>>)>>>>)>>>>)}

(* fetch rejects with the reason, which the await in call throws *)
RejectWith(reason) ==
  [kind |-> "reject", status |-> 0, statusText |-> "", body |-> <<>>, reason |-> reason]

(* the rejection of the runtime's fetch: TypeError('fetch failed') *)
Reject == RejectWith(Error(Raw("fetch failed")))

(* a thrown value that is no Error, such as a string *)
NonError == [isErrorInstance |-> FALSE, message |-> <<>>]

Http(status, statusText, body) ==
  [kind |-> "http", status |-> status, statusText |-> statusText, body |-> body,
   reason |-> NoError]

ResultBody(id, result) ==
  JSONstringify(Obj(<<<<"jsonrpc", Str("2.0")>>, <<"id", Num(id)>>,
                      <<"result", result>>>>), 0).text

MethodNotFound == Obj(<<<<"code", Num(-32601)>>, <<"message", Str("Method not found")>>>>)

ErrorBody(id, error) ==
  JSONstringify(Obj(<<<<"jsonrpc", Str("2.0")>>, <<"id", Num(id)>>,
                      <<"error", error>>>>), 0).text

BothBody(id) ==
  JSONstringify(Obj(<<<<"jsonrpc", Str("2.0")>>, <<"id", Num(id)>>,
                      <<"result", TicketScenario>>, <<"error", MethodNotFound>>>>),
                0).text

Garbage == Raw("<html>Bad Gateway</html>")

(* what the upstream may answer in the concurrent specification *)
FewResponses(id) ==
  {Reject,
   Http(500, "Internal Server Error", Garbage),
   Http(200, "OK", ResultBody(id, TicketScenario)),
   Http(200, "OK", ResultBody(id, Bool(FALSE)))}

(* what the upstream may answer in the sequential specification *)
ManyResponses(id) ==
  {Reject, RejectWith(Error(<<>>)), RejectWith(NonError)}
  \cup {Http(404, "Not Found", b) :
          b \in {Garbage, ErrorBody(id, MethodNotFound), ResultBody(id, TicketFull)}}
  \cup {Http(500, "", b) : b \in {<<>>, ResultBody(id, TicketFull)}}
  \cup {Http(300, "Multiple Choices", ResultBody(id, TicketFull))}
  \cup {Http(204, "No Content", <<>>)}
  \cup {Http(200, "OK", b) :
          b \in {Garbage, <<Lit("null")>>, <<NumTok(5)>>, <<P("["), P("]")>>,
                 ErrorBody(id, MethodNotFound), ErrorBody(id, Null),
                 ErrorBody(id, Str("boom")), BothBody(id)}}
  \cup {Http(200, "OK", ResultBody(id, p)) : p \in Payloads}
  \cup {Http(299, "", ResultBody(id, TicketNulls))}

(* the request ids a run can reach: at most two calls for each invocation *)
Ids == 1..(2 * (IF MaxInv > MaxSeqInv THEN MaxInv ELSE MaxSeqInv))

FewResponsesTo == [id \in Ids |-> FewResponses(id)]

ManyResponsesTo == [id \in Ids |-> ManyResponses(id)]

(* the id of invocation i's latest request *)
PendingId(i) ==
  IF Len(invs[i].reqs) = 0 THEN 1 ELSE invs[i].reqs[Len(invs[i].reqs)].id

(* every payload as the answer to update_ticket's getTicket *)
BaselineResponsesTo ==
  [id \in Ids |->
     FewResponses(id) \cup {Http(200, "OK", ResultBody(id, p)) : p \in Payloads}]

(* the sequential specification's answers: every kind of answer for an    *)
(* invocation with the required arguments alone; for one with optional    *)
(* arguments, every baseline for update_ticket's fetch and a few answers   *)
(* for any other call                                                      *)
SeqResponses(i) ==
  IF DOMAIN invs[i].args = RequiredArgs(invs[i].tool) THEN ManyResponsesTo[PendingId(i)]
  ELSE IF invs[i].tool = "update_ticket" /\ Len(invs[i].reqs) = 1
  THEN BaselineResponsesTo[PendingId(i)]
  ELSE FewResponsesTo[PendingId(i)]

(* tools of each handler shape, for the concurrent specification *)
FewTools == {"get_ticket", "update_ticket", "create_project"}

---------------------------------------------------------------------------
(* Spec: the host interleaves up to MaxInv invocations *)

InvokeAny ==
  /\ Len(invs) < MaxInv
  /\ \E tool \in FewTools : \E args \in ArgsFor(tool, 0) : Invoke(tool, args)

FetchSettlesAny ==
  \E i \in 1..Len(invs) : \E resp \in FewResponsesTo[PendingId(i)] : FetchSettles(i, resp)

JsonSettlesAny == \E i \in 1..Len(invs) : JsonSettles(i)

LoseAny == \E i \in 1..Len(invs) : Lose(i)

ReplyAny == \E i \in 1..Len(invs) : Reply(i)

Next == InvokeAny \/ FetchSettlesAny \/ JsonSettlesAny \/ LoseAny \/ ReplyAny

Spec == Init /\ [][Next]_vars

(* LiveSpec: every fetch that is not lost settles, and so does every      *)
(* response.json()                                                        *)
Fairness ==
  \A i \in 1..MaxInv :
    /\ WF_vars(i <= Len(invs) /\ \E resp \in FewResponsesTo[PendingId(i)] : FetchSettles(i, resp))
    /\ WF_vars(i <= Len(invs) /\ JsonSettles(i))

LiveSpec == Spec /\ Fairness

---------------------------------------------------------------------------
(* SeqSpec: the host delivers up to MaxSeqInv invocations one after the    *)
(* other, of every tool, with every kind of upstream answer                *)

SeqInvoke ==
  /\ Len(invs) < MaxSeqInv
  /\ \A j \in 1..Len(invs) : invs[j].pc = "replied"
  /\ \E tool \in Tools : \E args \in ArgsFor(tool, MaxSupplied) : Invoke(tool, args)

SeqFetchSettles ==
  \E i \in 1..Len(invs) : \E resp \in SeqResponses(i) : FetchSettles(i, resp)

SeqNext == SeqInvoke \/ SeqFetchSettles \/ JsonSettlesAny \/ LoseAny \/ ReplyAny

SeqSpec == Init /\ [][SeqNext]_vars

---------------------------------------------------------------------------
(* StartSpec: the process is started with a command line and an            *)
(* environment, runs main, and once connected serves up to MaxStartInv     *)
(* invocations                                                             *)

MaxStartInv == 1

SlashUrl == HostUrl \o <<"/">>

TwoSlashUrl == HostUrl \o <<"/", "/">>

(* the URL of the README's configuration examples *)
ReadmeUrl == HostUrl \o ApiPath

EnvUrl == <<"https:", "/", "/", "ENVHOST">>

Urls == {HostUrl, SlashUrl, TwoSlashUrl, ReadmeUrl, ReadmeUrl \o <<"/">>, <<>>}

(* process.argv.slice(2) *)
Argvs ==
  {<<>>, <<<<"--help">>>>, <<<<"-h">>>>, <<<<"--url">>>>, <<<<"--api-key">>>>,
   <<<<"--url">>, <<"--help">>>>, <<<<"--api-key">>, <<"-h">>>>,
   <<<<"--url">>, <<"--help">>, <<"--api-key">>, <<"KEY">>>>,
   <<<<"--api-key">>, <<"KEY">>, <<"--help">>>>,
   <<<<"--verbose">>, <<"-h">>, <<"--url">>, HostUrl>>,
   <<<<"--api-key">>, <<"KEY">>>>,
   <<<<"--api-key">>, <<>>>>,
   <<<<"--url">>, HostUrl, <<"--api-key">>, <<>>>>,
   <<<<"--url">>, HostUrl, <<"--url">>, SlashUrl, <<"--api-key">>, <<"KEY">>>>,
   <<<<"--verbose">>, <<"--api-key">>, <<"KEY">>, <<"--url">>, HostUrl>>,
   <<<<"--url">>, <<"--api-key">>, <<"KEY">>>>,
   <<<<"--api-key">>, <<"--url">>, HostUrl>>,
   <<<<"--url">>, <<"--url">>, <<"--api-key">>, <<"KEY">>>>,
   <<<<"--url">>, HostUrl, <<"--api-key">>, <<"KEY">>, <<"--url">>>>,
   <<<<"--api-key">>, <<"OLDKEY">>, <<"--url">>, HostUrl, <<"--api-key">>, <<"KEY">>>>}
  \cup {<<<<"--url">>, url>> : url \in Urls}
  \cup {<<<<"--url">>, url, <<"--api-key">>, <<"KEY">>>> : url \in Urls}

(* process.env after dotenv.config() *)
Envs ==
  [LEANTIME_URL : {Absent, Given(<<>>), Given(EnvUrl), Given(EnvUrl \o <<"/">>)},
   LEANTIME_API_KEY : {Absent, Given(<<>>), Given(<<"ENVKEY">>)}]

StartInit == \E argv \in Argvs : \E env \in Envs : Start(argv, env)

StartInvoke ==
  /\ Len(invs) < MaxStartInv
  /\ \E tool \in {"get_ticket"} : \E args \in ArgsFor(tool, 0) : Invoke(tool, args)

StartFetchSettles ==
  \E i \in 1..Len(invs) :
    \E resp \in {Reject, Http(200, "OK", ResultBody(PendingId(i), Bool(FALSE)))} :
      FetchSettles(i, resp)

StartNext ==
  \/ ParseArguments
  \/ InitializeTools
  \/ Connect
  \/ ConnectFails
  \/ StartInvoke
  \/ StartFetchSettles
  \/ JsonSettlesAny
  \/ ReplyAny

StartSpec == StartInit /\ [][StartNext]_vars

---------------------------------------------------------------------------
(* ClientSpec: callers of the client call the wrappers that declare         *)
(* optional parameters, up to MaxDirect times, each optional argument left  *)
(* out, null or given                                                       *)

MaxDirect == 1

Optional(value) == {Undef, Null, value}

WrapperArgs ==
  [getAllTickets |->
     [searchCriteria : Optional(Obj(<<<<"status", Num(1)>>>>))],
   getAllMilestones |->
     [searchCriteria : Optional(Obj(<<<<"status", Num(1)>>>>)),
      sortBy : Optional(Str("date"))],
   findTicket |->
     [term : {Str("bug")}, projectId : {Num(1)}, userId : Optional(Num(3))],
   getAll |->
     [showClosedProjects : Optional(Bool(TRUE))],
   getProjectsAssignedToUser |->
     [userId : {Num(3)}, projectStatus : Optional(Str("open")),
      clientId : Optional(Num(7))],
   getProjectHierarchyAssignedToUser |->
     [userId : {Num(3)}, projectStatus : Optional(Str("open")),
      clientId : Optional(Num(7))],
   getAllClientsAvailableToUser |->
     [userId : {Num(3)}, projectStatus : Optional(Str("open"))]]

DirectCallAny ==
  /\ Len(direct) < MaxDirect
  /\ \E wrapper \in DOMAIN WrapperArgs : \E a \in WrapperArgs[wrapper] :
       DirectCall(wrapper, a)

DirectFetchSettlesAny ==
  \E i \in 1..Len(direct) :
    \E resp \in {Reject, Http(200, "OK", ResultBody(direct[i].req.id, Arr(<<>>)))} :
      DirectFetchSettles(i, resp)

DirectJsonSettlesAny == \E i \in 1..Len(direct) : DirectJsonSettles(i)

ClientNext == DirectCallAny \/ DirectFetchSettlesAny \/ DirectJsonSettlesAny

ClientSpec == Init /\ [][ClientNext]_vars

---------------------------------------------------------------------------
(* StoreSpec: the host interleaves up to MaxStoreInv update_ticket         *)
(* invocations for the stored ticket, each supplying one field, and the    *)
(* upstream answers every request from its store                           *)

MaxStoreInv == 2

(* the stored object with the members of values written over it *)
Assign(ticket, values) ==
  Obj([n \in 1..Len(ticket.o) |->
         IF HasKey(values, ticket.o[n][1])
         THEN <<ticket.o[n][1], Get(values, ticket.o[n][1])>>
         ELSE ticket.o[n]]
      \o SelectSeq(values.o, LAMBDA m : ~HasKey(ticket, m[1])))

(* the upstream handles a request: the ticket it stores afterwards and its *)
(* response.  getTicket reads the ticket, updateTicket writes the values.  *)
Answer(ticket, req) ==
  CHOOSE a \in
    {IF req.method = getTicket(Undef).method
     THEN [ticket |-> ticket, resp |-> Http(200, "OK", ResultBody(req.id, ticket))]
     ELSE IF req.method = updateTicket(Undef).method /\ Get(params, "values").t = "object"
     THEN [ticket |-> Assign(ticket, Get(params, "values")),
           resp |-> Http(200, "OK", ResultBody(req.id, Bool(TRUE)))]
     ELSE [ticket |-> ticket, resp |-> Http(200, "OK", ErrorBody(req.id, MethodNotFound))]
       : params \in {Get(JSONparse(req.body).v, "params")}} : TRUE

(* the upstream serves the pending request of invocation i from its store *)
(* and fetch settles with the answer                                      *)
Serve(i) ==
  /\ invs[i].pc = "fetch"
  /\ \E a \in {Answer(upstream, invs[i].reqs[Len(invs[i].reqs)])} :
       /\ Settled(i, a.resp)
       /\ upstream' = a.ticket
  /\ UNCHANGED <<requestId, sent, proc, direct>>

StoreInvoke ==
  /\ Len(invs) < MaxStoreInv
  /\ \E field \in {"status", "userId", "headline"} :
       Invoke("update_ticket", ArgsWith("update_ticket", {field}))

ServeAny == \E i \in 1..Len(invs) : Serve(i)

StoreNext == StoreInvoke \/ ServeAny \/ JsonSettlesAny

StoreSpec == Init /\ [][StoreNext]_vars

---------------------------------------------------------------------------
(* ShutdownSpec: the serving process handles up to MaxShutdownInv          *)
(* invocations and receives SIGINT up to MaxSigint times                    *)

MaxSigint == 2

MaxShutdownInv == 1

(* the process receives SIGINT while it serves: the handler calls          *)
(* server.close() and awaits it                                            *)
Sigint ==
  /\ proc.pc = "serving"
  /\ proc.sigints < MaxSigint
  /\ proc' = Interrupted(proc)
  /\ UNCHANGED <<requestId, invs, sent, direct, upstream>>

(* the close a SIGINT handler awaits completes *)
CloseSettles ==
  /\ proc.pc = "serving"
  /\ proc.sigints > 0
  /\ ~proc.closed
  /\ proc' = CloseCompleted(proc)
  /\ UNCHANGED <<requestId, invs, sent, direct, upstream>>

(* the SIGINT handler whose await has settled exits the process *)
SigintExits ==
  /\ proc.pc = "serving"
  /\ proc.closed
  /\ proc' = InterruptExited(proc)
  /\ UNCHANGED <<requestId, invs, sent, direct, upstream>>

ShutdownInvoke ==
  /\ Len(invs) < MaxShutdownInv
  /\ \E tool \in {"get_ticket", "update_ticket"} : \E args \in ArgsFor(tool, 0) :
       Invoke(tool, args)

ShutdownNext ==
  \/ ShutdownInvoke
  \/ FetchSettlesAny
  \/ JsonSettlesAny
  \/ ReplyAny
  \/ Sigint
  \/ CloseSettles
  \/ SigintExits

ShutdownSpec == Init /\ [][ShutdownNext]_vars

---------------------------------------------------------------------------
(* What the claims speak of *)

Live == {i \in 1..Len(invs) : invs[i].pc # "replied"}

Finished == {i \in Live : invs[i].pc = "returned"}

(* the request as the upstream reads it *)
Wire(req) == JSONparse(req.body).v

WireParams(req) == Get(Wire(req), "params")

(* an answer that makes call fail: a rejected fetch, a status outside     *)
(* 200..299, a body that is no JSON-RPC success response                   *)
FailedAnswer(resp) ==
  \/ resp.kind = "reject"
  \/ resp.status < 200
  \/ resp.status > 299
  \/ \E json \in {JSONparse(resp.body)} :
       \/ ~json.ok
       \/ json.v.t \notin {"object", "array"}
       \/ HasKey(json.v, "error")

LastAnswer(i) == invs[i].resps[Len(invs[i].resps)]

(* the invocation made its last call, and every call returned a result *)
Succeeded(i) ==
  /\ invs[i].pc = "returned"
  /\ Len(invs[i].results) = Len(invs[i].reqs)
  /\ invs[i].tool = "update_ticket" => Len(invs[i].reqs) = 2

LastResult(i) == invs[i].results[Len(invs[i].results)]

---------------------------------------------------------------------------
(* C1: the JSON-RPC ids of the outgoing requests of one client start at 1, *)
(* strictly increase in the order the calls were started, and are pairwise *)
(* distinct, however the invocations interleave and whether or not they    *)
(* fail.                                                                   *)
C1_RequestIdsIncrease ==
  /\ Len(sent) > 0 => sent[1] = 1
  /\ \A j, k \in 1..Len(sent) : j < k => sent[j] < sent[k]
  /\ \A i \in Live : \A a \in 1..Len(invs[i].reqs) :
       /\ Get(Wire(invs[i].reqs[a]), "id") = Num(invs[i].reqs[a].id)
       /\ \E k \in 1..Len(sent) : invs[i].reqs[a].id = sent[k]
       /\ \A j \in Live : \A b \in 1..Len(invs[j].reqs) :
            (i # j \/ a # b) => invs[i].reqs[a].id # invs[j].reqs[b].id

(* an update_ticket whose two calls enclose the call of an invocation      *)
(* that failed                                                             *)
C1_Witness ==
  \E i, j \in Live :
    /\ i # j
    /\ Len(invs[i].reqs) = 2
    /\ invs[i].pc = "fetch"
    /\ invs[j].pc = "returned"
    /\ invs[j].env.isError
    /\ invs[i].reqs[1].id < invs[j].reqs[1].id
    /\ invs[j].reqs[1].id < invs[i].reqs[2].id

---------------------------------------------------------------------------
(* C2: for every tool, when the upstream answer makes the client call      *)
(* fail, the handler returns an envelope with isError = true and a         *)
(* non-empty text; no handler ends by throwing.                            *)
C2_FailureContained ==
  \A i \in Live :
    /\ invs[i].pc \in {"fetch", "json", "returned"}
    /\ (Len(invs[i].resps) > 0 /\ invs[i].pc # "json" /\ FailedAnswer(LastAnswer(i))) =>
         /\ invs[i].pc = "returned"
         /\ invs[i].env.isError
         /\ invs[i].env.textDefined
         /\ Len(invs[i].env.text) > 0

(* after an invocation that failed was answered, a later one is served *)
C2_Witness ==
  \E i, j \in 1..Len(invs) :
    /\ i < j
    /\ invs[i].pc = "replied"
    /\ invs[i].env.isError
    /\ Succeeded(j)
    /\ ~invs[j].env.isError

---------------------------------------------------------------------------
(* C3: an invocation whose own upstream calls are answered returns its     *)
(* envelope, whatever happens to the other invocations: each invocation    *)
(* that was started eventually returns or has a request that is never      *)
(* answered.                                                               *)
ReturnedOrLost(i) ==
  /\ i <= Len(invs)
  /\ (invs[i].pc \in {"returned", "replied"} \/ invs[i].lost)

C3_NoInvocationBlocksAnother ==
  \A i \in 1..MaxInv : [](i <= Len(invs) => <>ReturnedOrLost(i))

(* a later invocation returned while an earlier one is never answered *)
C3_Witness ==
  \E i, j \in Live :
    /\ i < j
    /\ invs[i].lost
    /\ invs[j].pc = "returned"

---------------------------------------------------------------------------
(* update_ticket invocations that have issued their updateTicket call *)
Updating == {i \in Live : invs[i].tool = "update_ticket" /\ Len(invs[i].reqs) = 2}

(* the values member of the params of request req, as the upstream reads it *)
WireValues(req) == Get(WireParams(req), "values")

(* C4 as stated: in the values of the outgoing updateTicket call, every     *)
(* field the caller supplied has the supplied value (the id among them),    *)
(* and every other field, projectId and every field present in the fetched *)
(* ticket, has the fetched ticket's value.                                  *)
C4_MergePreservesBaseline ==
  \A i \in Updating :
    \A k \in DOMAIN invs[i].args \cup Keys(invs[i].results[1]) \cup {"projectId"} :
      Get(WireValues(invs[i].reqs[2]), k) =
        IF k \in DOMAIN invs[i].args THEN invs[i].args[k]
        ELSE Get(invs[i].results[1], k)

---------------------------------------------------------------------------
(* a payload that is empty or no ticket: null, false, any other non-object *)
(* value, an empty object, an empty array                                  *)
EmptyOrInvalid(v) ==
  \/ v.t \notin {"object", "array"}
  \/ v.t = "object" /\ Len(v.o) = 0
  \/ v.t = "array" /\ Len(v.a) = 0

(* C5 as stated: an update_ticket whose baseline fetch returned an empty or *)
(* invalid payload has returned an error envelope and has issued no         *)
(* updateTicket call.                                                       *)
C5_EmptyBaselineRejected ==
  \A i \in Live :
    (/\ invs[i].tool = "update_ticket"
     /\ Len(invs[i].results) >= 1
     /\ EmptyOrInvalid(invs[i].results[1])) =>
      /\ invs[i].pc = "returned"
      /\ invs[i].env.isError
      /\ Len(invs[i].reqs) = 1

---------------------------------------------------------------------------
(* C6 as stated: an invocation that has returned has issued exactly one     *)
(* request, and an update_ticket exactly two.                               *)
C6_ExactlyOneOrTwoRequests ==
  \A i \in Finished :
    Len(invs[i].reqs) = IF invs[i].tool = "update_ticket" THEN 2 ELSE 1

(* C6: every invocation issues one request, and update_ticket a second one  *)
(* (updateTicket after getTicket) exactly when its fetch returned an object *)
(* or array; a request is issued only after every earlier request of the    *)
(* invocation was answered with success, no request is answered twice, and  *)
(* after a failed answer the invocation returns without a further request.  *)
C6_RequestsPerInvocation ==
  \A i \in Live :
    /\ Len(invs[i].reqs) =
         IF /\ invs[i].tool = "update_ticket"
            /\ Len(invs[i].results) >= 1
            /\ invs[i].results[1].t \in {"object", "array"}
         THEN 2 ELSE 1
    /\ Len(invs[i].resps) <= Len(invs[i].reqs)
    /\ Len(invs[i].resps) >= Len(invs[i].reqs) - 1
    /\ invs[i].pc = "returned" => Len(invs[i].resps) = Len(invs[i].reqs)
    /\ \A k \in 1..Len(invs[i].resps) :
         FailedAnswer(invs[i].resps[k]) =>
           k = Len(invs[i].reqs) /\ invs[i].pc \in {"json", "returned"}
    /\ Len(invs[i].reqs) = 2 =>
         /\ invs[i].reqs[1].method = "leantime.rpc.Tickets.Tickets.getTicket"
         /\ invs[i].reqs[2].method = "leantime.rpc.Tickets.Tickets.updateTicket"
         /\ invs[i].reqs[1].id < invs[i].reqs[2].id

(* an update_ticket whose updateTicket call failed returned after its two   *)
(* requests                                                                 *)
C6_Witness ==
  \E i \in Finished :
    /\ invs[i].tool = "update_ticket"
    /\ Len(invs[i].reqs) = 2
    /\ Len(invs[i].resps) = 2
    /\ FailedAnswer(invs[i].resps[2])
    /\ invs[i].env.isError

---------------------------------------------------------------------------
(* the tools that confirm a create, update, delete or duplicate *)
Confirming ==
  {"create_ticket", "update_ticket", "delete_ticket", "create_project",
   "update_project", "duplicate_project"}

(* the text after its first token *)
Rest(text) == SubSeq(text, 2, Len(text))

(* the successful invocations whose last call returned a result value *)
Resulted == {i \in Live : Succeeded(i) /\ LastResult(i).t # "undefined"}

(* C7 as stated: the text of a successful invocation's envelope parses as   *)
(* JSON to the upstream result, and isError is not set.                     *)
C7_TextParsesToResult ==
  \A i \in Resulted :
    /\ ~invs[i].env.isError
    /\ invs[i].env.textDefined
    /\ JSONparse(invs[i].env.text) = [ok |-> TRUE, v |-> LastResult(i)]

(* C7: the envelope of a successful invocation has no isError, and the      *)
(* upstream result is read back from its text by JSON parsing: from the     *)
(* whole text for a plain read tool, as the only member (isAssigned, role)  *)
(* of the object the whole text parses to for the two wrapping tools, and   *)
(* from the text after the confirmation phrase for the six confirming       *)
(* tools, whose whole text is no JSON.                                      *)
C7_RoundTrip ==
  \A i \in Resulted :
    /\ ~invs[i].env.isError
    /\ invs[i].env.textDefined
    /\ \E whole \in {JSONparse(invs[i].env.text)} :
         CASE invs[i].tool \in Confirming ->
                /\ ~whole.ok
                /\ invs[i].env.text[1].k = "raw"
                /\ JSONparse(Rest(invs[i].env.text)) =
                     [ok |-> TRUE, v |-> LastResult(i)]
           [] invs[i].tool = "check_user_project_assignment" ->
                whole = [ok |-> TRUE, v |-> Obj(<<<<"isAssigned", LastResult(i)>>>>)]
           [] invs[i].tool = "get_project_role" ->
                whole = [ok |-> TRUE, v |-> Obj(<<<<"role", LastResult(i)>>>>)]
           [] OTHER -> whole = [ok |-> TRUE, v |-> LastResult(i)]

(* create_project succeeded with a nested object as its result *)
C7_Witness ==
  \E i \in Resulted :
    /\ invs[i].tool = "create_project"
    /\ LastResult(i) = TicketFull
    /\ Len(invs[i].env.text) > Len(TicketFull.o)

---------------------------------------------------------------------------
(* JSON.stringify(v, null, 2) as it stands in a text *)
Pretty(v) == Interpolate(JSONstringify(v, 2))

(* the text starts with a phrase and goes on with the pretty-printed v *)
PhraseThen(text, v) ==
  /\ Len(text) >= 2
  /\ text[1].k = "raw"
  /\ Rest(text) = Pretty(v)

(* the text is the serialization of v and nothing else *)
Bare(env, v) ==
  /\ env.textDefined = (v.t # "undefined")
  /\ env.text = JSONstringify(v, 2).text

---------------------------------------------------------------------------
(* create_project invocations *)
Creating == {i \in Live : invs[i].tool = "create_project"}

(* C9 as stated: the params of the request of a create_project with name    *)
(* and clientId alone have the keys name, clientId and type, and no other.  *)
C9_ParamsAreTheValues ==
  \A i \in Creating :
    DOMAIN invs[i].args = {"name", "clientId"} =>
      Keys(WireParams(invs[i].reqs[1])) = {"name", "clientId", "type"}

(* C9: the params of the request of a create_project are an object with the *)
(* one member values; values has name and clientId as supplied, type        *)
(* "project", and one member for each optional argument supplied, with its  *)
(* value, and no other member, so exactly {name, clientId, type} when no    *)
(* optional argument is supplied.                                           *)
C9_CreateProjectValues ==
  \A i \in Creating :
    \E params \in {WireParams(invs[i].reqs[1])} :
      /\ params.t = "object"
      /\ Len(params.o) = 1
      /\ params.o[1][1] = "values"
      /\ \E values \in {params.o[1][2]} :
           /\ values.t = "object"
           /\ Keys(values) = {"name", "clientId", "type"} \cup DOMAIN invs[i].args
           /\ Len(values.o) = Cardinality(Keys(values))
           /\ Get(values, "type") = Str("project")
           /\ \A k \in DOMAIN invs[i].args : Get(values, k) = invs[i].args[k]
           /\ DOMAIN invs[i].args = {"name", "clientId"} =>
                values = Obj(<<<<"name", invs[i].args["name"]>>,
                               <<"clientId", invs[i].args["clientId"]>>,
                               <<"type", Str("project")>>>>)

(* a create_project with optional arguments, a falsy one among them, has    *)
(* sent its request                                                         *)
C9_Witness ==
  \E i \in Creating :
    /\ {"name", "clientId", "hourBudget"} \subseteq DOMAIN invs[i].args
    /\ Cardinality(DOMAIN invs[i].args) = 4
    /\ Len(invs[i].resps) = 1

---------------------------------------------------------------------------
(* the token tok stands in the text *)
Contains(text, tok) == \E n \in 1..Len(text) : text[n] = tok

(* C10: when the k-th answer to an invocation has a status outside          *)
(* 200..299, the call fails with an Error whose message holds the status    *)
(* code and the status text, whatever the body: the body is not read, the   *)
(* call returns no result, no further request is made, and the envelope is  *)
(* an error.                                                                *)
C10_HttpStatusFails ==
  \A i \in Live : \A k \in 1..Len(invs[i].resps) :
    \E resp \in {invs[i].resps[k]} :
      (resp.kind = "http" /\ (resp.status < 200 \/ resp.status > 299)) =>
        /\ k = Len(invs[i].reqs)
        /\ invs[i].pc = "returned"
        /\ invs[i].caught.isErrorInstance
        /\ Contains(invs[i].caught.message, NumTok(resp.status))
        /\ resp.statusText # "" =>
             Contains(invs[i].caught.message, [k |-> "raw", s |-> resp.statusText])
        /\ invs[i].bodyReads = k - 1
        /\ Len(invs[i].results) = k - 1
        /\ invs[i].env.isError
        /\ Contains(invs[i].env.text, NumTok(resp.status))

(* a 404 answer whose body is a well-formed JSON-RPC success response *)
C10_Witness ==
  \E i \in Finished :
    /\ Len(invs[i].resps) = 1
    /\ invs[i].resps[1].status = 404
    /\ \E json \in {JSONparse(invs[i].resps[1].body)} :
         json.ok /\ HasKey(json.v, "result") /\ ~HasKey(json.v, "error")

---------------------------------------------------------------------------
(* the k-th answer to invocation i has been handled by call *)
Handled(i, k) == k < Len(invs[i].resps) \/ invs[i].pc # "json"

(* C11: for an answer with a success status whose body is a JSON object,    *)
(* the call fails exactly when the body has an error member, with an Error  *)
(* whose message holds the error's code and message, and returns no         *)
(* result; otherwise it returns the body's result member unchanged.  An     *)
(* Error that reports a JSON-RPC error comes from such a body only.         *)
C11_ErrorIffErrorEnvelope ==
  \A i \in Live :
    /\ \A k \in 1..Len(invs[i].resps) :
         \E resp \in {invs[i].resps[k]} : \E json \in {JSONparse(resp.body)} :
           (/\ Handled(i, k)
            /\ resp.kind = "http" /\ resp.status >= 200 /\ resp.status <= 299
            /\ json.ok /\ json.v.t = "object") =>
             IF HasKey(json.v, "error")
             THEN /\ Len(invs[i].results) = k - 1
                  /\ Len(invs[i].reqs) = k
                  /\ invs[i].pc = "returned"
                  /\ invs[i].caught.isErrorInstance
                  /\ invs[i].env.isError
                  /\ \E error \in {Get(json.v, "error")} :
                       (/\ Get(error, "code").t = "number"
                        /\ Get(error, "message").t = "string") =>
                         /\ invs[i].caught.message[1] = Raw("Error JSON-RPC: ")[1]
                         /\ Contains(invs[i].caught.message, NumTok(Get(error, "code").n))
                         /\ Contains(invs[i].caught.message,
                                     [k |-> "raw", s |-> Get(error, "message").s])
                         /\ Contains(invs[i].env.text,
                                     [k |-> "raw", s |-> Get(error, "message").s])
             ELSE /\ Len(invs[i].results) >= k
                  /\ invs[i].results[k] = Get(json.v, "result")
    /\ (/\ invs[i].caught.isErrorInstance
        /\ Len(invs[i].caught.message) > 0
        /\ invs[i].caught.message[1] = Raw("Error JSON-RPC: ")[1]) =>
         /\ LastAnswer(i).status >= 200 /\ LastAnswer(i).status <= 299
         /\ HasKey(JSONparse(LastAnswer(i).body).v, "error")

(* an answer with both a result and an error member made the call fail *)
C11_Witness ==
  \E i \in Finished : \E json \in {JSONparse(LastAnswer(i).body)} :
    /\ LastAnswer(i).status = 200
    /\ json.ok
    /\ HasKey(json.v, "result")
    /\ Get(json.v, "error") = MethodNotFound
    /\ invs[i].env.isError
    /\ Len(invs[i].results) = 0

---------------------------------------------------------------------------
(* the process got past parseArguments and ran loadConfig *)
Loaded == proc.loadConfigCalls > 0

---------------------------------------------------------------------------
(* how often the path occurs in the target *)
Occurrences(path, url) ==
  Cardinality({n \in 1..Len(url) : /\ n + Len(path) - 1 <= Len(url)
                                   /\ SubSeq(url, n, n + Len(path) - 1) = path})

(* C13: every request is a POST whose body has jsonrpc "2.0", whose        *)
(* x-api-key header is the configured key and whose target is the          *)
(* normalized URL followed by /api/jsonrpc, with /api/jsonrpc in it once;   *)
(* when the URL given is that of the README, https://HOST/api/jsonrpc, the  *)
(* target is that URL.                                                      *)
C13_RequestTarget ==
  \A i \in Live : \A k \in 1..Len(invs[i].reqs) :
    \E req \in {invs[i].reqs[k]} :
      /\ req.verb = "POST"
      /\ Get(Wire(req), "jsonrpc") = Str("2.0")
      /\ req.headers.xApiKey = proc.loaded.leantimeApiKey.s
      /\ req.url = NormalizeUrl(proc.loaded.leantimeUrl.s) \o ApiPath
      /\ Occurrences(ApiPath, req.url) = 1
      /\ proc.loaded.leantimeUrl.s = ReadmeUrl => req.url = ReadmeUrl

---------------------------------------------------------------------------
(* neither the command line nor the environment gives the setting a value *)
Missing(flag, variable) == Empty(flag) /\ Empty(variable)

(* C16: when the URL, the key or both are missing, loadConfig throws an     *)
(* Error whose message names every missing setting, and returns no Config.  *)
C16_NamesEachMissing ==
  Loaded =>
    \E noUrl \in {Missing(proc.options.leantimeUrl, proc.env.LEANTIME_URL)} :
      \E noKey \in {Missing(proc.options.leantimeApiKey, proc.env.LEANTIME_API_KEY)} :
        /\ proc.loaded.threw <=> (noUrl \/ noKey)
        /\ proc.loaded.threw => proc.loaded.config = NoConfig
        /\ noUrl => Contains(proc.loaded.message, "LEANTIME_URL")
        /\ noKey => Contains(proc.loaded.message, "LEANTIME_API_KEY")

---------------------------------------------------------------------------
(* the same string, or both no value at all *)
SameSetting(a, b) == (Empty(a) /\ Empty(b)) \/ (a.set /\ b.set /\ a.s = b.s)

(* C17: the URL and the key loadConfig resolves are the values of the       *)
(* --url and --api-key flags whenever the flag is given, and the values of  *)
(* the environment variables only when the flag is absent.                  *)
C17_FlagBeforeEnvironment ==
  Loaded =>
    /\ SameSetting(proc.loaded.leantimeUrl,
                   IF proc.options.leantimeUrl.set THEN proc.options.leantimeUrl
                   ELSE proc.env.LEANTIME_URL)
    /\ SameSetting(proc.loaded.leantimeApiKey,
                   IF proc.options.leantimeApiKey.set THEN proc.options.leantimeApiKey
                   ELSE proc.env.LEANTIME_API_KEY)

---------------------------------------------------------------------------
HelpAt(argv, i) == argv[i] = <<"--help">> \/ argv[i] = <<"-h">>

(* argv[i] follows a --url or --api-key that is not itself such a value *)
RECURSIVE ValueAt_(_, _)
ValueAt_(argv, i) ==
  /\ i > 1
  /\ argv[i - 1] \in {<<"--url">>, <<"--api-key">>}
  /\ ~ValueAt_(argv, i - 1)

(* the usage text was printed and the process left with code 0 before       *)
(* anything else happened                                                   *)
HelpOnly ==
  /\ proc.pc = "exited"
  /\ proc.exitCode = 0
  /\ proc.stdout = <<UsageText>>
  /\ proc.stderr = <<>>
  /\ proc.loadConfigCalls = 0
  /\ proc.registered = {}
  /\ ~proc.connected
  /\ invs = <<>>
  /\ sent = <<>>

(* C18 as stated: whenever --help or -h is among the arguments, the        *)
(* process prints the usage text and exits with code 0 before loadConfig,  *)
(* the registration of the tools and the connection of the transport.      *)
C18_AnyHelpExits ==
  (proc.pc # "main" /\ \E i \in 1..Len(proc.argv) : HelpAt(proc.argv, i)) => HelpOnly

(* C18: whenever --help or -h is among the arguments other than as the     *)
(* value that follows --url or --api-key, the process prints the usage     *)
(* text and exits with code 0 before loadConfig, the registration of the   *)
(* tools and the connection of the transport.                              *)
C18_HelpExits ==
  (/\ proc.pc # "main"
   /\ \E i \in 1..Len(proc.argv) : HelpAt(proc.argv, i) /\ ~ValueAt_(proc.argv, i))
    => HelpOnly

(* the help flag after a complete --api-key option ended the process *)
C18_Witness ==
  /\ proc.argv = <<<<"--api-key">>, <<"KEY">>, <<"--help">>>>
  /\ proc.pc = "exited"
  /\ proc.stdout = <<UsageText>>

---------------------------------------------------------------------------
(* some line of the output holds the name *)
Mentions(lines, name) == \E n \in 1..Len(lines) : Contains(lines[n], name)

(* C19: started with no arguments and neither environment variable, the    *)
(* process exits with code 1 and its output mentions LEANTIME_URL and       *)
(* LEANTIME_API_KEY.                                                        *)
C19_BothNamesReported ==
  (proc.argv = <<>> /\ proc.env = NoEnv /\ proc.pc \notin {"main", "initialize"}) =>
    /\ proc.pc = "exited"
    /\ proc.exitCode = 1
    /\ Mentions(proc.stdout \o proc.stderr, "LEANTIME_URL")
    /\ Mentions(proc.stdout \o proc.stderr, "LEANTIME_API_KEY")

---------------------------------------------------------------------------
(* C20: the transport is connected only after loadConfig returned a        *)
(* Config and every tool was registered; invocations are accepted only     *)
(* once it is connected; when loadConfig throws, the process exits with a  *)
(* nonzero code, unconnected, and accepts no invocation.                    *)
C20_ConnectAfterConfiguration ==
  /\ proc.connected =>
       /\ Loaded /\ ~proc.loaded.threw
       /\ proc.registered = Tools
       /\ proc.pc = "serving"
  /\ (invs # <<>> \/ sent # <<>>) => proc.connected
  /\ (Loaded /\ proc.loaded.threw) =>
       /\ proc.pc = "exited"
       /\ proc.exitCode # 0
       /\ ~proc.connected
       /\ proc.registered = {}
       /\ invs = <<>> /\ sent = <<>>

(* configured from the environment alone, the server answered an           *)
(* invocation                                                              *)
C20_Witness ==
  /\ proc.argv = <<>>
  /\ proc.connected
  /\ \E i \in Finished : ~invs[i].env.isError

---------------------------------------------------------------------------
(* the member of a response body, when the body is a JSON object *)
Member(json, key) == IF json.ok THEN Get(json.v, key) ELSE Undef

(* two answers that differ in the id of the response at most *)
SameAnswer(a, b) ==
  /\ a.kind = b.kind
  /\ a.reason = b.reason
  /\ a.status = b.status
  /\ a.statusText = b.statusText
  /\ \E ja \in {JSONparse(a.body)} : \E jb \in {JSONparse(b.body)} :
       /\ ja.ok = jb.ok
       /\ ~ja.ok => a.body = b.body
       /\ ja.ok => /\ ja.v.t = jb.v.t
                   /\ ja.v.t # "object" => ja.v = jb.v
                   /\ Keys(ja.v) = Keys(jb.v)
                   /\ Member(ja, "result") = Member(jb, "result")
                   /\ Member(ja, "error") = Member(jb, "error")

(* two invocations of the same tool with the same arguments that got the   *)
(* same answers                                                            *)
Alike(i, j) ==
  /\ invs[i].tool = invs[j].tool
  /\ invs[i].args = invs[j].args
  /\ invs[i].pc = invs[j].pc
  /\ invs[i].lost = invs[j].lost
  /\ Len(invs[i].resps) = Len(invs[j].resps)
  /\ \A k \in 1..Len(invs[i].resps) : SameAnswer(invs[i].resps[k], invs[j].resps[k])

(* C14: two invocations of the same tool with the same arguments and the   *)
(* same upstream answers have the same envelope, and their requests have   *)
(* the same method, params, target, verb and headers, whatever was invoked *)
(* before or in between: the requests differ in their id only.             *)
C14_NoMemoryAcrossInvocations ==
  \A i \in Live : \A j \in Live :
    (i < j /\ Alike(i, j)) =>
      /\ invs[i].env = invs[j].env
      /\ invs[i].results = invs[j].results
      /\ Len(invs[i].reqs) = Len(invs[j].reqs)
      /\ \A k \in 1..Len(invs[i].reqs) :
           \E a \in {invs[i].reqs[k]} : \E b \in {invs[j].reqs[k]} :
             /\ a.id # b.id
             /\ a.method = b.method
             /\ a.url = b.url /\ a.verb = b.verb /\ a.headers = b.headers
             /\ \E wa \in {Wire(a)} : \E wb \in {Wire(b)} :
                  /\ Get(wa, "params") = Get(wb, "params")
                  /\ Get(wa, "method") = Get(wb, "method")
                  /\ Get(wa, "jsonrpc") = Get(wb, "jsonrpc")

(* two update_ticket invocations, their four requests interleaved, ended   *)
(* alike                                                                   *)
C14_Witness ==
  \E i \in Finished : \E j \in Finished :
    /\ i < j /\ Alike(i, j)
    /\ invs[i].tool = "update_ticket"
    /\ Len(invs[i].reqs) = 2
    /\ invs[j].reqs[1].id < invs[i].reqs[2].id
    /\ invs[i].env.textDefined

---------------------------------------------------------------------------
(* the arguments with every null optional argument left out instead *)
Omitting(wrapper, a) ==
  [k \in DOMAIN a |->
     IF k \in OptionalParams[wrapper] /\ a[k] = Null THEN Undef ELSE a[k]]

(* the params of the request the wrapper would send with the arguments a *)
ParamsOf(id, wrapper, a) ==
  Get(JSONparse(RequestBody(id, WrapperRpc(wrapper, a))).v, "params")

(* C12: in the request of a wrapper with optional parameters, an optional   *)
(* argument that is not passed has no member in the outgoing params, and    *)
(* the params with an optional argument passed as null are those with the   *)
(* argument left out.                                                       *)
C12_AbsentAndNullOmitted ==
  \A i \in 1..Len(direct) :
    \E call \in {direct[i]} : \E params \in {WireParams(call.req)} :
      /\ params.t = "object"
      /\ \A k \in OptionalParams[call.wrapper] :
           call.a[k] = Undef => ~HasKey(params, k)
      /\ params = ParamsOf(call.req.id, call.wrapper, Omitting(call.wrapper, call.a))

---------------------------------------------------------------------------
(* the places of the command line where the flag stands as a flag, not as  *)
(* the value of the flag before it, and is followed by another argument    *)
FlagPlaces(argv, flag) ==
  {i \in 1..Len(argv) : argv[i] = flag /\ i + 1 <= Len(argv) /\ ~ValueAt_(argv, i)}

Last(S) == CHOOSE i \in S : \A j \in S : j <= i

(* the option the command line gives for the flag *)
OptionOf(argv, flag) ==
  IF FlagPlaces(argv, flag) = {} THEN Absent
  ELSE Given(argv[Last(FlagPlaces(argv, flag)) + 1])

(* C24: the options parseArguments returns hold, for --url and for         *)
(* --api-key, the argument that follows the last place where the flag      *)
(* stands followed by another argument, and nothing when there is no such  *)
(* place: other arguments and a flag in the last place change nothing, and *)
(* the argument after a flag is its value whatever it is, never a flag.    *)
C24_OptionsFromFlagValues ==
  (/\ proc.pc # "main"
   /\ ~\E i \in 1..Len(proc.argv) : HelpAt(proc.argv, i) /\ ~ValueAt_(proc.argv, i)) =>
    /\ proc.options.leantimeUrl = OptionOf(proc.argv, <<"--url">>)
    /\ proc.options.leantimeApiKey = OptionOf(proc.argv, <<"--api-key">>)
    /\ proc.pc # "exited" \/ proc.exitCode # 0

(* --url --url --api-key KEY: the second --url is the URL, the key is set *)
C24_Witness ==
  /\ proc.argv = <<<<"--url">>, <<"--url">>, <<"--api-key">>, <<"KEY">>>>
  /\ proc.pc = "serving"
  /\ proc.options.leantimeUrl = Given(<<"--url">>)
  /\ proc.options.leantimeApiKey = Given(<<"KEY">>)

---------------------------------------------------------------------------
(* the handler's catch block returned the envelope of invocation i *)
Caught(i) == invs[i].pc = "returned" /\ invs[i].env.isError

(* the text ends with the message *)
EndsWith(text, message) ==
  /\ Len(text) >= Len(message)
  /\ SubSeq(text, Len(text) - Len(message) + 1, Len(text)) = message

(* C22: for every tool, when the caught value carries no message, being no *)
(* Error or an Error whose message is empty, the text of the error         *)
(* envelope holds the tool's "Unknown error ..." text; when it carries a   *)
(* message the text holds that message.                                    *)
C22_FallbackWithoutMessage ==
  \A i \in Live :
    Caught(i) =>
      IF ~invs[i].caught.isErrorInstance \/ invs[i].caught.message = <<>>
      THEN /\ UnknownErrorText(invs[i].tool) # ""
           /\ EndsWith(invs[i].env.text, Raw(UnknownErrorText(invs[i].tool)))
      ELSE EndsWith(invs[i].env.text, invs[i].caught.message)

---------------------------------------------------------------------------
(* the fields an update_ticket invocation supplies besides the id *)
Supplied(i) == DOMAIN invs[i].args \ {"id"}

(* the invocation sent its update and returned the success envelope *)
Updated(i) ==
  /\ invs[i].tool = "update_ticket"
  /\ invs[i].pc = "returned"
  /\ Len(invs[i].reqs) = 2
  /\ ~invs[i].env.isError

(* C23: when two update_ticket invocations for the same ticket that supply *)
(* disjoint fields were in flight at once and both have completed, the     *)
(* ticket the upstream stores holds the values both supplied, whatever the *)
(* order in which their fetch and update calls were served.                *)
C23_ConcurrentUpdatesKept ==
  \A i \in 1..Len(invs) : \A j \in 1..Len(invs) :
    (/\ i # j
     /\ Updated(i) /\ Updated(j)
     /\ invs[i].args["id"] = invs[j].args["id"]
     /\ Supplied(i) \cap Supplied(j) = {}) =>
      \A k \in Supplied(i) : Get(upstream, k) = invs[i].args[k]

---------------------------------------------------------------------------
(* a request of some invocation is awaiting its answer *)
InFlight == \E i \in 1..Len(invs) : invs[i].pc = "fetch" /\ ~invs[i].lost

(* C21: after SIGINT the process exits, with code 0, only once             *)
(* server.close() has completed and the transport is closed: the step      *)
(* that exits starts from a state in which the close is complete.  The     *)
(* exit waits for nothing else: once the close is complete it can be       *)
(* taken whatever requests are in flight, and it leaves them unanswered.   *)
C21_ExitAfterClose ==
  /\ [](proc.pc = "exited" =>
          /\ proc.sigints > 0
          /\ proc.closed
          /\ ~proc.connected
          /\ proc.exitCode = 0)
  /\ [][(proc.pc # "exited" /\ proc'.pc = "exited") =>
          (proc.closed /\ ~proc.connected /\ invs' = invs)]_vars
  /\ []((proc.pc = "serving" /\ proc.closed) => ENABLED SigintExits)
  /\ [][proc.pc = "exited" => invs' = invs]_vars

(* the process has exited on SIGINT with a request still in flight *)
C21_Witness ==
  /\ proc.pc = "exited"
  /\ proc.sigints > 0
  /\ proc.closed
  /\ InFlight

====
